---- MODULE Spec2Model ----
(***************************************************************************)
(* Model of the Convex -> Fivetran source connector: the persisted State   *)
(* and its JSON encoding (src/src/sync.rs), the update endpoint            *)
(* (src/src/connector.rs), the dispatcher `sync` and the two stream        *)
(* generators `initial_sync` and `delta_sync` (src/src/sync.rs).           *)
(*                                                                         *)
(* Option<T> is modelled as a sequence of length at most one: None is <<>> *)
(* and Some(x) is <<x>>.  A Result whose error carries no information the  *)
(* model needs is modelled the same way (Err is <<>>, Ok(x) is <<x>>).     *)
(***************************************************************************)
EXTENDS Integers, Sequences, FiniteSets, TLC

None == <<>>
Some(x) == <<x>>
IsSome(o) == o # <<>>
Unwrap(o) == o[1]

(***************************************************************************)
(* Bounds of the exploration.                                              *)
(***************************************************************************)
\* Source calls (pages) explored in one invocation of sync.
MaxPages == 2
\* Invocations explored in one chain of resumes.
MaxRuns == 2
\* Values per list_snapshot response of the FakeSource (10 in tests.rs).
values_per_call == 2
\* Entries per document_deltas response of the FakeSource (5 in tests.rs).
results_per_page == 2
\* Inserts, patches and deletes applied to a FakeSource after its seeding.
MaxMutations == 2

(***************************************************************************)
(* Sample values of the data the program handles.                          *)
(***************************************************************************)
Tables == {"t1", "t2"}
Snapshots == {1, 2}
ListCursors == {"c1", "c2"}
DeltaCursors == {1, 2}
Versions == {1, 2}

\* The value of the `version` field written by State::create.
CURSOR_VERSION == 1

(***************************************************************************)
(* State and Checkpoint (sync.rs).                                         *)
(***************************************************************************)
InitialSyncCheckpoint(snapshot, cursor) ==
    [tag |-> "InitialSync", snapshot |-> snapshot, cursor |-> cursor]

DeltaUpdatesCheckpoint(cursor) ==
    [tag |-> "DeltaUpdates", cursor |-> cursor]

State(version, checkpoint, tables_seen) ==
    [version |-> version, checkpoint |-> checkpoint, tables_seen |-> tables_seen]

State_create(checkpoint, tables_seen) ==
    State(CURSOR_VERSION, checkpoint, tables_seen)

Checkpoints ==
    {InitialSyncCheckpoint(s, c) : s \in Snapshots, c \in ListCursors}
        \cup {DeltaUpdatesCheckpoint(c) : c \in DeltaCursors}

TablesSeenValues == {None} \cup {Some(S) : S \in SUBSET Tables}

States ==
    {State(v, c, t) : v \in Versions, c \in Checkpoints, t \in TablesSeenValues}

(***************************************************************************)
(* JSON values, tagged by their JSON type.  An object is a function from   *)
(* its keys to JSON values, an array is a sequence of JSON values.         *)
(***************************************************************************)
JNull == <<"null">>
JInt(n) == <<"int", n>>
JStr(s) == <<"str", s>>
JArr(a) == <<"arr", a>>
JObj(o) == <<"obj", o>>

JIsNull(j) == j[1] = "null"
JIsInt(j) == j[1] = "int"
JIsStr(j) == j[1] = "str"
JIsArr(j) == j[1] = "arr"
JIsObj(j) == j[1] = "obj"

EmptyObject == JObj(<<>>)

Obj1(k1, v1) == JObj([k \in {k1} |-> v1])
Obj2(k1, v1, k2, v2) == JObj([k \in {k1, k2} |-> IF k = k1 THEN v1 ELSE v2])
Obj3(k1, v1, k2, v2, k3, v3) ==
    JObj([k \in {k1, k2, k3} |-> IF k = k1 THEN v1 ELSE IF k = k2 THEN v2 ELSE v3])

\* The orders in which the elements of a set can be written out.
Orderings(S) ==
    {q \in [1..Cardinality(S) -> S] : \A i, j \in 1..Cardinality(S) : q[i] = q[j] => i = j}

(***************************************************************************)
(* serde_json::to_string(&State): derive(Serialize) with                   *)
(* rename_all = "camelCase" on State, externally tagged Checkpoint.  A     *)
(* HashSet is written as an array in the set's iteration order, which is   *)
(* not determined: `order` is that order.                                  *)
(***************************************************************************)
SerializeCheckpoint(c) ==
    IF c.tag = "InitialSync"
    THEN Obj1("InitialSync", Obj2("snapshot", JInt(c.snapshot), "cursor", JStr(c.cursor)))
    ELSE Obj1("DeltaUpdates", Obj1("cursor", JInt(c.cursor)))

SerializeTablesSeen(tables_seen, order) ==
    IF IsSome(tables_seen)
    THEN JArr([i \in DOMAIN order |-> JStr(order[i])])
    ELSE JNull

SerializeState(s, order) ==
    Obj3("version", JInt(s.version),
         "checkpoint", SerializeCheckpoint(s.checkpoint),
         "tablesSeen", SerializeTablesSeen(s.tables_seen, order))

\* Every JSON text serde_json::to_string can produce for the state s.
Serializations(s) ==
    {SerializeState(s, order) :
        order \in IF IsSome(s.tables_seen) THEN Orderings(Unwrap(s.tables_seen)) ELSE {<<>>}}

(***************************************************************************)
(* serde_json::from_str::<State>: derive(Deserialize) with                 *)
(* deny_unknown_fields on State and on Checkpoint.  The result is Some(s)  *)
(* or None when decoding fails.                                            *)
(***************************************************************************)
CheckpointVariants == {"InitialSync", "DeltaUpdates"}

DeserializeInitialSync(j) ==
    IF ~JIsObj(j) THEN None
    ELSE LET o == j[2] IN
         IF DOMAIN o # {"snapshot", "cursor"} THEN None
         ELSE IF ~JIsInt(o["snapshot"]) \/ ~JIsStr(o["cursor"]) THEN None
         ELSE Some(InitialSyncCheckpoint(o["snapshot"][2], o["cursor"][2]))

DeserializeDeltaUpdates(j) ==
    IF ~JIsObj(j) THEN None
    ELSE LET o == j[2] IN
         IF DOMAIN o # {"cursor"} THEN None
         ELSE IF ~JIsInt(o["cursor"]) THEN None
         ELSE Some(DeltaUpdatesCheckpoint(o["cursor"][2]))

DeserializeCheckpoint(j) ==
    IF ~JIsObj(j) THEN None
    ELSE LET o == j[2] IN
         IF Cardinality(DOMAIN o) # 1 THEN None
         ELSE LET variant == CHOOSE k \in DOMAIN o : TRUE IN
              IF variant \notin CheckpointVariants THEN None
              ELSE IF variant = "InitialSync" THEN DeserializeInitialSync(o[variant])
              ELSE DeserializeDeltaUpdates(o[variant])

\* Mutant: an empty array is read as an absent set.
DeserializeTablesSeen_empty_is_absent(o) ==
    IF "tablesSeen" \notin DOMAIN o THEN Some(None)
    ELSE LET j == o["tablesSeen"] IN
         IF JIsNull(j) THEN Some(None)
         ELSE IF ~JIsArr(j) THEN None
         ELSE IF \E i \in DOMAIN j[2] : ~JIsStr(j[2][i]) THEN None
         ELSE IF j[2] = <<>> THEN Some(None)
         ELSE Some(Some({j[2][i][2] : i \in DOMAIN j[2]}))

DeserializeTablesSeen(o) ==
    IF "tablesSeen" \notin DOMAIN o THEN Some(None)
    ELSE LET j == o["tablesSeen"] IN
         IF JIsNull(j) THEN Some(None)
         ELSE IF ~JIsArr(j) THEN None
         ELSE IF \E i \in DOMAIN j[2] : ~JIsStr(j[2][i]) THEN None
         ELSE Some(Some({j[2][i][2] : i \in DOMAIN j[2]}))

StateFields == {"version", "checkpoint", "tablesSeen"}

\* Mutant: keys that are not fields of State are skipped.
DeserializeState_skips_unknown_keys(j) ==
    IF ~JIsObj(j) THEN None
    ELSE LET o == j[2] IN
         IF "version" \notin DOMAIN o \/ "checkpoint" \notin DOMAIN o THEN None
         ELSE IF ~JIsInt(o["version"]) THEN None
         ELSE LET checkpoint == DeserializeCheckpoint(o["checkpoint"])
                  tables_seen == DeserializeTablesSeen(o)
              IN IF ~IsSome(checkpoint) \/ ~IsSome(tables_seen) THEN None
                 ELSE Some(State(o["version"][2], Unwrap(checkpoint), Unwrap(tables_seen)))

DeserializeState(j) ==
    IF ~JIsObj(j) THEN None
    ELSE LET o == j[2] IN
         IF ~(DOMAIN o \subseteq StateFields) THEN None
         ELSE IF "version" \notin DOMAIN o \/ "checkpoint" \notin DOMAIN o THEN None
         ELSE IF ~JIsInt(o["version"]) THEN None
         ELSE LET checkpoint == DeserializeCheckpoint(o["checkpoint"])
                  tables_seen == DeserializeTablesSeen(o)
              IN IF ~IsSome(checkpoint) \/ ~IsSome(tables_seen) THEN None
                 ELSE Some(State(o["version"][2], Unwrap(checkpoint), Unwrap(tables_seen)))

(***************************************************************************)
(* Source responses (convex_api.rs).  `fields` is the document: a map from *)
(* field names to JSON values; the sample documents carry an _id and a     *)
(* body.                                                                   *)
(***************************************************************************)
SnapshotValue(table, deleted, fields) ==
    [table |-> table, deleted |-> deleted, fields |-> fields]

Doc(id, body) == [_id |-> id, body |-> body]

\* A body that the row conversion refuses.
Unconvertible == "unconvertible"

\* The pages of values a source response carries in the exploration.
Pages ==
    { <<>>,
      <<SnapshotValue("t1", FALSE, Doc("d1", "a")), SnapshotValue("t2", FALSE, Doc("d2", "a"))>>,
      <<SnapshotValue("t2", TRUE, Doc("d2", "a")), SnapshotValue("t1", FALSE, Doc("d1", "b"))>>,
      <<SnapshotValue("t1", FALSE, Doc("d1", "a")), SnapshotValue("t1", FALSE, Doc("d3", "a"))>>,
      <<SnapshotValue("t2", FALSE, Doc("d2", Unconvertible))>> }

ListSnapshotResponse(values, snapshot, cursor, has_more) ==
    [values |-> values, snapshot |-> snapshot, cursor |-> cursor, has_more |-> has_more]

DocumentDeltasResponse(values, cursor, has_more) ==
    [values |-> values, cursor |-> cursor, has_more |-> has_more]

\* The continuation cursors a list_snapshot response carries: absent or a
\* token.
ResponseCursors == {None, Some("c2")}

\* What Source::list_snapshot can return: Some(response), or None for Err.
ListSnapshotResults ==
    {None} \cup
    {Some(ListSnapshotResponse(v, s, c, h)) :
        v \in Pages, s \in Snapshots, c \in ResponseCursors, h \in BOOLEAN}

\* What Source::document_deltas can return: Some(response), or None for Err.
\* The response's cursor is an i64 that is always present: a body without
\* it fails to deserialize in ConvexApi::get and the call returns Err.
DocumentDeltasResults ==
    {None} \cup
    {Some(DocumentDeltasResponse(v, c, h)) :
        v \in Pages, c \in DeltaCursors, h \in BOOLEAN}

(***************************************************************************)
(* convert::to_fivetran_row: the destination row of a document, or None    *)
(* when a value of the document has no destination representation.         *)
(***************************************************************************)
FivetranValue(v) == <<"String", v>>

to_fivetran_row(fields) ==
    IF \E k \in DOMAIN fields : fields[k] = Unconvertible
    THEN None
    ELSE Some([k \in DOMAIN fields |-> FivetranValue(fields[k])])

\* HashMap::new()
EmptyRow == <<>>

(***************************************************************************)
(* UpdateMessage (sync.rs) and the terminating error of the stream.        *)
(***************************************************************************)
Log(text) == [kind |-> "Log", text |-> text]

Update(table_name, op_type, row) ==
    [kind |-> "Update", table_name |-> table_name, op_type |-> op_type, row |-> row]

Checkpoint(s) == [kind |-> "Checkpoint", state |-> s]

Err(error) == [kind |-> "Err", error |-> error]

(***************************************************************************)
(* The responses of the update endpoint.  From<UpdateMessage> for          *)
(* FivetranUpdateResponse (sync.rs) encodes a message; the text of a       *)
(* Checkpoint is one of the serializations of its State, the order of the  *)
(* tables being the iteration order of a HashSet, and a State that has no  *)
(* serialization makes `expect` panic.  ConvexConnector::update            *)
(* (connector.rs) maps every Ok item of the stream of sync through it and  *)
(* every Err item to a Status.                                             *)
(***************************************************************************)
LogEntry(message) == [response |-> "LogEntry", message |-> message]

ValueType(inner) == [inner |-> Some(inner)]

Record(table_name, type, data) ==
    [response |-> "Operation", op |-> "Record", schema_name |-> None,
     table_name |-> table_name, type |-> type, data |-> data]

CheckpointOperation(state_json) ==
    [response |-> "Operation", op |-> "Checkpoint", state_json |-> state_json]

Status_internal(error) == [response |-> "Status", message |-> error]

Panic == [response |-> "panic"]

\* Mutant: a Checkpoint is forwarded as a log entry.
FivetranUpdateResponse_from_logs_checkpoints(value) ==
    IF value.kind = "Log" THEN {LogEntry(value.text)}
    ELSE IF value.kind = "Update"
    THEN {Record(value.table_name, value.op_type,
                 [field_name \in DOMAIN value.row |-> ValueType(value.row[field_name])])}
    ELSE {LogEntry("checkpoint")}

FivetranUpdateResponse_from(value) ==
    IF value.kind = "Log" THEN {LogEntry(value.text)}
    ELSE IF value.kind = "Update"
    THEN {Record(value.table_name, value.op_type,
                 [field_name \in DOMAIN value.row |-> ValueType(value.row[field_name])])}
    ELSE IF Serializations(value.state) = {} THEN {Panic}
    ELSE {CheckpointOperation(state_json) : state_json \in Serializations(value.state)}

\* sync.map_ok(FivetranUpdateResponse::from).map_err(Status::internal): the
\* wire responses an item of the stream can become.
Forwarded(item) ==
    IF item.kind = "Err" THEN {Status_internal(item.error)}
    ELSE FivetranUpdateResponse_from(item)

(***************************************************************************)
(* The state of one chain of invocations.                                  *)
(*   run         invocations started so far                                *)
(*   pc          position of the current invocation in the generator      *)
(*   request     the state_json of the UpdateRequest being served, None    *)
(*               when sync was not called by the update endpoint           *)
(*   decoded     the result of decoding the request's state                *)
(*   state       the Option<State> handed to sync                          *)
(*   started     the engine sync selected and the arguments it passed      *)
(*   checkpoint, cursor, tables_seen, has_more                             *)
(*               the locals of initial_sync / delta_sync                   *)
(*   res, idx    the response being iterated and the index of the next     *)
(*               value of its `values`                                     *)
(*   out         the items the stream has yielded, each with the number of *)
(*               the page (source call) it was produced from               *)
(*   calls       the Source calls issued, each with its result             *)
(*   tracked     whether the first invocation of the chain was started     *)
(*               with tables_seen tracked                                  *)
(*   source      the tables and the change log of the FakeSource           *)
(*               (tests.rs) the invocations read, when they read one       *)
(*   delivered   the items of the earlier invocations of the chain that    *)
(*               the destination received                                  *)
(*   pulls       the items the consumer of the stream has asked for, where *)
(*               the consumer is followed                                  *)
(***************************************************************************)
VARIABLES run, pc, request, decoded, state, started, checkpoint, cursor, tables_seen,
          has_more, res, idx, out, calls, tracked, source, delivered, pulls

vars == <<run, pc, request, decoded, state, started, checkpoint, cursor, tables_seen,
          has_more, res, idx, out, calls, tracked, source, delivered, pulls>>

\* What an action of a running stream leaves alone.
invocation == <<run, request, decoded, state, started, tracked, source, delivered, pulls>>

\* FakeSource::default()
FakeSource_default == [tables |-> <<>>, changelog |-> <<>>]

NotStarted == [engine |-> "none", checkpoint |-> None, cursor |-> 0, tables_seen |-> None]

NoResponse == ListSnapshotResponse(<<>>, 0, None, FALSE)

Yield(m) == out' = Append(out, [msg |-> m, page |-> Len(calls)])

Init ==
    /\ run = 0
    /\ pc = "idle"
    /\ request = None
    /\ decoded = None
    /\ state = None
    /\ started = NotStarted
    /\ checkpoint = None
    /\ cursor = 0
    /\ tables_seen = None
    /\ has_more = TRUE
    /\ res = NoResponse
    /\ idx = 1
    /\ out = <<>>
    /\ calls = <<>>
    /\ tracked = FALSE
    /\ source = FakeSource_default
    /\ delivered = <<>>
    /\ pulls = 0

(***************************************************************************)
(* sync (sync.rs): builds the stream of the engine the state selects.      *)
(* Nothing runs until the stream is polled.                                *)
(***************************************************************************)
CallInitialSync(cp, ts) ==
    /\ started' = [engine |-> "initial_sync", checkpoint |-> cp, cursor |-> 0,
                   tables_seen |-> ts]
    /\ pc' = "is_start"
    /\ checkpoint' = cp
    /\ tables_seen' = ts
    /\ cursor' = 0

\* Mutant: delta_sync starts with an empty tables_seen.
CallDeltaSync_forgets_tables_seen(c, ts) ==
    /\ started' = [engine |-> "delta_sync", checkpoint |-> None, cursor |-> c,
                   tables_seen |-> Some({})]
    /\ pc' = "ds_start"
    /\ cursor' = c
    /\ tables_seen' = Some({})
    /\ checkpoint' = None

CallDeltaSync(c, ts) ==
    /\ started' = [engine |-> "delta_sync", checkpoint |-> None, cursor |-> c,
                   tables_seen |-> ts]
    /\ pc' = "ds_start"
    /\ cursor' = c
    /\ tables_seen' = ts
    /\ checkpoint' = None

\* Mutant: a resumed initial sync restarts from scratch.
sync_drops_checkpoint(st) ==
    IF ~IsSome(st)
    THEN CallInitialSync(None, Some({}))
    ELSE LET s == Unwrap(st) IN
         IF s.checkpoint.tag = "InitialSync"
         THEN CallInitialSync(None, s.tables_seen)
         ELSE CallDeltaSync(s.checkpoint.cursor, s.tables_seen)

\* Mutant: an absent tables_seen is replaced by the empty set.
sync_defaults_tables_seen(st) ==
    IF ~IsSome(st)
    THEN CallInitialSync(None, Some({}))
    ELSE LET s == Unwrap(st)
             ts == IF IsSome(s.tables_seen) THEN s.tables_seen ELSE Some({})
         IN IF s.checkpoint.tag = "InitialSync"
            THEN CallInitialSync(Some(<<s.checkpoint.snapshot, s.checkpoint.cursor>>), ts)
            ELSE CallDeltaSync(s.checkpoint.cursor, ts)

\* Mutant: an absent state starts without tables_seen.
sync_absent_untracked(st) ==
    IF ~IsSome(st)
    THEN CallInitialSync(None, None)
    ELSE LET s == Unwrap(st) IN
         IF s.checkpoint.tag = "InitialSync"
         THEN CallInitialSync(Some(<<s.checkpoint.snapshot, s.checkpoint.cursor>>),
                              s.tables_seen)
         ELSE CallDeltaSync(s.checkpoint.cursor, s.tables_seen)

\* Mutant: a state of another version is not resumed.
sync_version_gated(st) ==
    IF ~IsSome(st) \/ Unwrap(st).version # CURSOR_VERSION
    THEN CallInitialSync(None, Some({}))
    ELSE LET s == Unwrap(st) IN
         IF s.checkpoint.tag = "InitialSync"
         THEN CallInitialSync(Some(<<s.checkpoint.snapshot, s.checkpoint.cursor>>),
                              s.tables_seen)
         ELSE CallDeltaSync(s.checkpoint.cursor, s.tables_seen)

\* Mutant: a DeltaUpdates checkpoint starts an initial sync again.
sync_always_initial(st) ==
    IF ~IsSome(st)
    THEN CallInitialSync(None, Some({}))
    ELSE LET s == Unwrap(st) IN
         IF s.checkpoint.tag = "InitialSync"
         THEN CallInitialSync(Some(<<s.checkpoint.snapshot, s.checkpoint.cursor>>),
                              s.tables_seen)
         ELSE CallInitialSync(None, s.tables_seen)

sync(st) ==
    IF ~IsSome(st)
    THEN CallInitialSync(None, Some({}))
    ELSE LET s == Unwrap(st) IN
         IF s.checkpoint.tag = "InitialSync"
         THEN CallInitialSync(Some(<<s.checkpoint.snapshot, s.checkpoint.cursor>>),
                              s.tables_seen)
         ELSE CallDeltaSync(s.checkpoint.cursor, s.tables_seen)

\* A call of sync: a new stream, nothing yielded and no Source call issued.
CallSync(st) ==
    /\ sync(st)
    /\ state' = st
    /\ run' = run + 1
    /\ tracked' = IF run = 0 THEN (IsSome(st) => IsSome(Unwrap(st).tables_seen)) ELSE tracked
    /\ has_more' = TRUE
    /\ res' = NoResponse
    /\ idx' = 1
    /\ out' = <<>>
    /\ calls' = <<>>

(***************************************************************************)
(* The requests the exploration starts a chain with: the state_json of the *)
(* first UpdateRequest.                                                    *)
(***************************************************************************)
LegacyInitialSyncJson ==
    Obj2("version", JInt(1),
         "checkpoint", Obj1("InitialSync", Obj2("snapshot", JInt(1), "cursor", JStr("c1"))))

LegacyDeltaUpdatesJson ==
    Obj2("version", JInt(1), "checkpoint", Obj1("DeltaUpdates", Obj1("cursor", JInt(1))))

UnknownKeyJson == Obj1("a", JStr("b"))

FirstStates ==
    { State(1, InitialSyncCheckpoint(1, "c1"), Some({})),
      State(2, InitialSyncCheckpoint(2, "c2"), Some({"t1"})),
      State(1, DeltaUpdatesCheckpoint(1), Some({})),
      State(2, DeltaUpdatesCheckpoint(2), Some({"t1", "t2"})),
      State(1, DeltaUpdatesCheckpoint(2), None) }

FirstStateJsons ==
    {None, Some(EmptyObject), Some(UnknownKeyJson),
     Some(LegacyInitialSyncJson), Some(LegacyDeltaUpdatesJson)}
        \cup {Some(j) : j \in UNION {Serializations(s) : s \in FirstStates}}

\* The state_json of the checkpoint operations sent so far: what
\* From<UpdateMessage> for FivetranUpdateResponse writes for a Checkpoint.
CheckpointJsons ==
    UNION {Serializations(out[i].msg.state) :
              i \in {k \in DOMAIN out : out[k].msg.kind = "Checkpoint"}}

(***************************************************************************)
(* ConvexConnector::update (connector.rs): decodes the state of the        *)
(* request, an absent state_json being replaced by "{}", and builds the    *)
(* stream of sync.  A state that does not decode fails the request.        *)
(***************************************************************************)
\* Mutant: a state that does not decode is replaced by the absent state.
update_falls_back(state_json) ==
    LET text == IF IsSome(state_json) THEN Unwrap(state_json) ELSE EmptyObject
    IN /\ request' = Some(state_json)
       /\ decoded' = DeserializeState(text)
       /\ IF ~IsSome(DeserializeState(text))
          THEN CallSync(None)
          ELSE CallSync(Some(Unwrap(DeserializeState(text))))

update(state_json) ==
    LET text == IF IsSome(state_json) THEN Unwrap(state_json) ELSE EmptyObject
    IN /\ request' = Some(state_json)
       /\ decoded' = DeserializeState(text)
       /\ IF ~IsSome(DeserializeState(text))
          THEN /\ pc' = "failed"
               /\ run' = run + 1
               /\ state' = None
               /\ started' = NotStarted
               /\ tracked' = IF run = 0 THEN FALSE ELSE tracked
               /\ out' = <<>>
               /\ calls' = <<>>
               /\ UNCHANGED <<checkpoint, cursor, tables_seen, has_more, res, idx>>
          ELSE CallSync(Some(Unwrap(DeserializeState(text))))

\* The first update request of a destination.
FirstUpdate ==
    /\ pc = "idle"
    /\ \E state_json \in FirstStateJsons : update(state_json)
    /\ UNCHANGED <<source, delivered, pulls>>

\* A later update request: Fivetran hands back the state of a checkpoint
\* it received, whether the previous stream ended or was cut.
ResumeUpdate ==
    /\ pc \notin {"idle", "failed"}
    /\ run < MaxRuns
    /\ \E j \in CheckpointJsons : update(Some(j))
    /\ UNCHANGED <<source, delivered, pulls>>

\* sync called without a state.
SyncAbsent ==
    /\ pc = "idle"
    /\ request' = None
    /\ decoded' = None
    /\ CallSync(None)
    /\ UNCHANGED <<source, delivered, pulls>>

(***************************************************************************)
(* initial_sync (sync.rs)                                                  *)
(***************************************************************************)
InitialStart ==
    /\ pc = "is_start"
    /\ Yield(Log(IF IsSome(checkpoint) THEN "Resuming an initial sync"
                                       ELSE "Starting an initial sync"))
    /\ has_more' = TRUE
    /\ pc' = "is_fetch"
    /\ UNCHANGED <<invocation, checkpoint, cursor, tables_seen, res, idx, calls>>

\* Mutant: a failed Source call is issued again.
AwaitSource_retries(req, r, rows) ==
    /\ calls' = Append(calls, [req |-> req, resp |-> r])
    /\ IF IsSome(r)
       THEN /\ res' = Unwrap(r)
            /\ idx' = 1
            /\ pc' = rows
       ELSE UNCHANGED <<res, idx, pc>>
    /\ UNCHANGED <<invocation, out, checkpoint, cursor, tables_seen, has_more>>

\* `source.<call>.await?` with the result r: the response becomes the one
\* iterated at position `rows`, an Err ends the stream with that error.
AwaitSource(req, r, rows) ==
    /\ calls' = Append(calls, [req |-> req, resp |-> r])
    /\ IF IsSome(r)
       THEN /\ res' = Unwrap(r)
            /\ idx' = 1
            /\ pc' = rows
            /\ UNCHANGED out
       ELSE /\ out' = Append(out, [msg |-> Err("Source"), page |-> Len(calls) + 1])
            /\ pc' = "error"
            /\ UNCHANGED <<res, idx>>
    /\ UNCHANGED <<invocation, checkpoint, cursor, tables_seen, has_more>>

\* Mutant: every request repeats the position the invocation started from.
ListSnapshotRequest_stale ==
    [fn |-> "list_snapshot",
     snapshot |-> IF IsSome(started.checkpoint)
                  THEN Some(Unwrap(started.checkpoint)[1]) ELSE None,
     cursor |-> IF IsSome(started.checkpoint)
                THEN Some(Unwrap(started.checkpoint)[2]) ELSE None]

ListSnapshotRequest ==
    [fn |-> "list_snapshot",
     snapshot |-> IF IsSome(checkpoint) THEN Some(Unwrap(checkpoint)[1]) ELSE None,
     cursor |-> IF IsSome(checkpoint) THEN Some(Unwrap(checkpoint)[2]) ELSE None]

\* source.list_snapshot(snapshot, cursor, None).await?
ListSnapshot ==
    /\ pc = "is_fetch"
    /\ Len(calls) < MaxPages
    /\ \E r \in ListSnapshotResults : AwaitSource(ListSnapshotRequest, r, "is_rows")

\* Mutant: the loop stops one value early.
PageDone_early == idx >= Len(res.values)

\* The `for value in res.values` loop has consumed every value.
PageDone == idx > Len(res.values)

\* Mutant: a table already in tables_seen is taken for a new one.
FirstSight_ignores_seen ==
    /\ idx <= Len(res.values)
    /\ IsSome(tables_seen)

\* Mutant: the test of tables_seen is inverted.
FirstSight_inverted ==
    /\ idx <= Len(res.values)
    /\ IsSome(tables_seen)
    /\ res.values[idx].table \in Unwrap(tables_seen)

\* The table of the value being iterated is seen for the first time.
FirstSight ==
    /\ idx <= Len(res.values)
    /\ IsSome(tables_seen)
    /\ res.values[idx].table \notin Unwrap(tables_seen)

\* Mutant: the table truncated is not recorded in tables_seen.
EmitTruncate_forgets_table ==
    /\ tables_seen' = tables_seen
    /\ Yield(Update(res.values[idx].table, "Truncate", EmptyRow))

EmitTruncate ==
    /\ tables_seen' = Some(Unwrap(tables_seen) \cup {res.values[idx].table})
    /\ Yield(Update(res.values[idx].table, "Truncate", EmptyRow))

\* Mutant: the entry that caused the Truncate is skipped.
InitialTruncate_skips_row ==
    /\ pc = "is_rows"
    /\ FirstSight
    /\ EmitTruncate
    /\ idx' = idx + 1
    /\ pc' = "is_rows"
    /\ UNCHANGED <<invocation, checkpoint, cursor, has_more, res, calls>>

InitialTruncate ==
    /\ pc = "is_rows"
    /\ FirstSight
    /\ EmitTruncate
    /\ pc' = "is_upsert"
    /\ UNCHANGED <<invocation, checkpoint, cursor, has_more, res, idx, calls>>

\* Mutant: an entry flagged deleted becomes a Delete.
InitialOpType_follows_deleted(value) == IF value.deleted THEN "Delete" ELSE "Upsert"

InitialOpType(value) == "Upsert"

InitialUpsert ==
    /\ \/ pc = "is_upsert"
       \/ pc = "is_rows" /\ idx <= Len(res.values) /\ ~FirstSight
    /\ LET value == res.values[idx]
           row == to_fivetran_row(value.fields)
       IN IF IsSome(row)
          THEN /\ Yield(Update(value.table, InitialOpType(value), Unwrap(row)))
               /\ idx' = idx + 1
               /\ pc' = "is_rows"
          ELSE /\ Yield(Err("Conversion"))
               /\ pc' = "error"
               /\ UNCHANGED idx
    /\ UNCHANGED <<invocation, checkpoint, cursor, tables_seen, has_more, res, calls>>

\* Mutant: a missing cursor is ignored and the loop goes on.
InitialCheckpoint_ignores_missing_cursor ==
    /\ pc = "is_rows"
    /\ PageDone
    /\ res.has_more
    /\ has_more' = res.has_more
    /\ IF IsSome(res.cursor)
       THEN /\ Yield(Checkpoint(State_create(
                        InitialSyncCheckpoint(res.snapshot, Unwrap(res.cursor)), tables_seen)))
            /\ checkpoint' = Some(<<res.snapshot, Unwrap(res.cursor)>>)
       ELSE UNCHANGED <<out, checkpoint>>
    /\ pc' = "is_fetch"
    /\ UNCHANGED <<invocation, cursor, tables_seen, res, idx, calls>>

\* Mutant: the Checkpoint carries the tables_seen the invocation started
\* with.
InitialCheckpoint_stale_tables_seen ==
    /\ pc = "is_rows"
    /\ PageDone
    /\ res.has_more
    /\ has_more' = res.has_more
    /\ IF IsSome(res.cursor)
       THEN /\ Yield(Checkpoint(State_create(
                        InitialSyncCheckpoint(res.snapshot, Unwrap(res.cursor)),
                        started.tables_seen)))
            /\ checkpoint' = Some(<<res.snapshot, Unwrap(res.cursor)>>)
            /\ pc' = "is_fetch"
       ELSE /\ Yield(Err("MissingCursor"))
            /\ pc' = "error"
            /\ UNCHANGED checkpoint
    /\ UNCHANGED <<invocation, cursor, tables_seen, res, idx, calls>>

\* End of a page with has_more set: the InitialSync checkpoint of the page.
InitialCheckpoint ==
    /\ pc = "is_rows"
    /\ PageDone
    /\ res.has_more
    /\ has_more' = res.has_more
    /\ IF IsSome(res.cursor)
       THEN /\ Yield(Checkpoint(State_create(
                        InitialSyncCheckpoint(res.snapshot, Unwrap(res.cursor)), tables_seen)))
            /\ checkpoint' = Some(<<res.snapshot, Unwrap(res.cursor)>>)
            /\ pc' = "is_fetch"
       ELSE /\ Yield(Err("MissingCursor"))
            /\ pc' = "error"
            /\ UNCHANGED checkpoint
    /\ UNCHANGED <<invocation, cursor, tables_seen, res, idx, calls>>

\* The snapshot the final DeltaUpdates checkpoint is built from.
FinalSnapshot == Unwrap(checkpoint)[1]

\* Mutant: the closing Log follows the error of a missing snapshot.
InitialFinish_closes_after_error ==
    /\ pc = "is_rows"
    /\ PageDone
    /\ ~res.has_more
    /\ has_more' = res.has_more
    /\ IF IsSome(checkpoint)
       THEN Yield(Checkpoint(State_create(DeltaUpdatesCheckpoint(FinalSnapshot), tables_seen)))
       ELSE Yield(Err("MissingSnapshot"))
    /\ pc' = "is_closing"
    /\ UNCHANGED <<invocation, checkpoint, cursor, tables_seen, res, idx, calls>>

\* End of a page with has_more unset: the loop ends and the DeltaUpdates
\* checkpoint is built from the local `checkpoint`.
InitialFinish ==
    /\ pc = "is_rows"
    /\ PageDone
    /\ ~res.has_more
    /\ has_more' = res.has_more
    /\ IF IsSome(checkpoint)
       THEN /\ Yield(Checkpoint(State_create(DeltaUpdatesCheckpoint(FinalSnapshot), tables_seen)))
            /\ pc' = "is_closing"
       ELSE /\ Yield(Err("MissingSnapshot"))
            /\ pc' = "error"
    /\ UNCHANGED <<invocation, checkpoint, cursor, tables_seen, res, idx, calls>>

InitialClosing ==
    /\ pc = "is_closing"
    /\ Yield(Log("Initial sync successful"))
    /\ pc' = "done"
    /\ UNCHANGED <<invocation, checkpoint, cursor, tables_seen, has_more, res, idx, calls>>

(***************************************************************************)
(* delta_sync (sync.rs)                                                    *)
(***************************************************************************)
DeltaStart ==
    /\ pc = "ds_start"
    /\ Yield(Log("Starting to apply changes"))
    /\ has_more' = TRUE
    /\ pc' = "ds_fetch"
    /\ UNCHANGED <<invocation, checkpoint, cursor, tables_seen, res, idx, calls>>

DocumentDeltasRequest == [fn |-> "document_deltas", cursor |-> cursor]

\* source.document_deltas(cursor, None).await?
DocumentDeltas ==
    /\ pc = "ds_fetch"
    /\ Len(calls) < MaxPages
    /\ \E r \in DocumentDeltasResults : AwaitSource(DocumentDeltasRequest, r, "ds_rows")

DeltaTruncate ==
    /\ pc = "ds_rows"
    /\ FirstSight
    /\ EmitTruncate
    /\ pc' = "ds_row"
    /\ UNCHANGED <<invocation, checkpoint, cursor, has_more, res, idx, calls>>

\* Mutant: the deletion flag of the entry is not looked at.
DeltaOpType_always_upsert(value) == "Upsert"

DeltaOpType(value) == IF value.deleted THEN "Delete" ELSE "Upsert"

DeltaRow ==
    /\ \/ pc = "ds_row"
       \/ pc = "ds_rows" /\ idx <= Len(res.values) /\ ~FirstSight
    /\ LET value == res.values[idx]
           row == to_fivetran_row(value.fields)
       IN IF IsSome(row)
          THEN /\ Yield(Update(value.table, DeltaOpType(value), Unwrap(row)))
               /\ idx' = idx + 1
               /\ pc' = "ds_rows"
          ELSE /\ Yield(Err("Conversion"))
               /\ pc' = "error"
               /\ UNCHANGED idx
    /\ UNCHANGED <<invocation, checkpoint, cursor, tables_seen, has_more, res, calls>>

\* Mutant: the loop does not look at has_more.
DeltaCheckpoint_loops ==
    /\ pc = "ds_rows"
    /\ PageDone
    /\ cursor' = res.cursor
    /\ has_more' = TRUE
    /\ Yield(Checkpoint(State_create(DeltaUpdatesCheckpoint(res.cursor), tables_seen)))
    /\ pc' = "ds_fetch"
    /\ UNCHANGED <<invocation, checkpoint, tables_seen, res, idx, calls>>

\* Mutant: the Checkpoint carries the cursor the page was requested with.
DeltaCheckpoint_stale_cursor ==
    /\ pc = "ds_rows"
    /\ PageDone
    /\ cursor' = res.cursor
    /\ has_more' = res.has_more
    /\ Yield(Checkpoint(State_create(DeltaUpdatesCheckpoint(cursor), tables_seen)))
    /\ pc' = IF res.has_more THEN "ds_fetch" ELSE "ds_closing"
    /\ UNCHANGED <<invocation, checkpoint, tables_seen, res, idx, calls>>

\* Mutant: a page without values gets no Checkpoint.
DeltaCheckpoint_skips_empty_page ==
    /\ pc = "ds_rows"
    /\ PageDone
    /\ cursor' = res.cursor
    /\ has_more' = res.has_more
    /\ IF res.values = <<>>
       THEN UNCHANGED out
       ELSE Yield(Checkpoint(State_create(DeltaUpdatesCheckpoint(res.cursor), tables_seen)))
    /\ pc' = IF res.has_more THEN "ds_fetch" ELSE "ds_closing"
    /\ UNCHANGED <<invocation, checkpoint, tables_seen, res, idx, calls>>

\* Mutant: the Checkpoint carries a cursor one entry ahead of the response.
DeltaCheckpoint_cursor_ahead ==
    /\ pc = "ds_rows"
    /\ PageDone
    /\ cursor' = res.cursor
    /\ has_more' = res.has_more
    /\ Yield(Checkpoint(State_create(DeltaUpdatesCheckpoint(res.cursor + 1), tables_seen)))
    /\ pc' = IF res.has_more THEN "ds_fetch" ELSE "ds_closing"
    /\ UNCHANGED <<invocation, checkpoint, tables_seen, res, idx, calls>>

\* End of a page: the DeltaUpdates checkpoint of the page.
DeltaCheckpoint ==
    /\ pc = "ds_rows"
    /\ PageDone
    /\ cursor' = res.cursor
    /\ has_more' = res.has_more
    /\ Yield(Checkpoint(State_create(DeltaUpdatesCheckpoint(res.cursor), tables_seen)))
    /\ pc' = IF res.has_more THEN "ds_fetch" ELSE "ds_closing"
    /\ UNCHANGED <<invocation, checkpoint, tables_seen, res, idx, calls>>

DeltaClosing ==
    /\ pc = "ds_closing"
    /\ Yield(Log("Changes applied"))
    /\ pc' = "done"
    /\ UNCHANGED <<invocation, checkpoint, cursor, tables_seen, has_more, res, idx, calls>>

Next ==
    \/ FirstUpdate
    \/ ResumeUpdate
    \/ SyncAbsent
    \/ InitialStart
    \/ ListSnapshot
    \/ InitialTruncate
    \/ InitialUpsert
    \/ InitialCheckpoint
    \/ InitialFinish
    \/ InitialClosing
    \/ DeltaStart
    \/ DocumentDeltas
    \/ DeltaTruncate
    \/ DeltaRow
    \/ DeltaCheckpoint
    \/ DeltaClosing

Spec == Init /\ [][Next]_vars

(***************************************************************************)
(* The consumer of the stream.  initial_sync and delta_sync are             *)
(* #[try_stream] generators: their body advances only inside a poll of the  *)
(* stream, from one yield to the next, and the consumer (the response       *)
(* stream of update, `try_next` in the tests) polls once for each item it   *)
(* asks for.  `pulls` counts the items asked for; an item yielded is handed *)
(* over by the poll that produced it.                                       *)
(***************************************************************************)
\* Mutant: the generator runs ahead of its consumer.
Polled_eager == TRUE

\* A poll of the stream is pending: an item was asked for and not yet yielded.
Polled == Len(out) < pulls

\* The consumer asks for the next item of a stream that has not ended.
Pull ==
    /\ pc \notin {"idle", "failed", "done", "error"}
    /\ Len(out) = pulls
    /\ pulls' = pulls + 1
    /\ UNCHANGED <<run, pc, request, decoded, state, started, checkpoint, cursor,
                   tables_seen, has_more, res, idx, out, calls, tracked, source,
                   delivered>>

PullNext ==
    \/ FirstUpdate
    \/ SyncAbsent
    \/ Pull
    \/ Polled /\ InitialStart
    \/ Polled /\ ListSnapshot
    \/ Polled /\ InitialTruncate
    \/ Polled /\ InitialUpsert
    \/ Polled /\ InitialCheckpoint
    \/ Polled /\ InitialFinish
    \/ Polled /\ InitialClosing
    \/ Polled /\ DeltaStart
    \/ Polled /\ DocumentDeltas
    \/ Polled /\ DeltaTruncate
    \/ Polled /\ DeltaRow
    \/ Polled /\ DeltaCheckpoint
    \/ Polled /\ DeltaClosing

SpecPull == Init /\ [][PullNext]_vars

(***************************************************************************)
(* The round trip of a State through its JSON encoding, as the test        *)
(* state_json_roundtrips (sync.rs) runs it: `state` is the value,          *)
(* `request` its JSON text and `decoded` the value read back.              *)
(***************************************************************************)
CodecInit ==
    /\ run = 0
    /\ pc = "to_string"
    /\ request = None
    /\ decoded = None
    /\ state \in {Some(s) : s \in States}
    /\ started = NotStarted
    /\ checkpoint = None
    /\ cursor = 0
    /\ tables_seen = None
    /\ has_more = TRUE
    /\ res = NoResponse
    /\ idx = 1
    /\ out = <<>>
    /\ calls = <<>>
    /\ tracked = FALSE
    /\ source = FakeSource_default
    /\ delivered = <<>>
    /\ pulls = 0

to_string ==
    /\ pc = "to_string"
    /\ \E j \in Serializations(Unwrap(state)) : request' = Some(Some(j))
    /\ pc' = "from_str"
    /\ UNCHANGED <<run, decoded, state, started, checkpoint, cursor, tables_seen,
                   has_more, res, idx, out, calls, tracked, source, delivered, pulls>>

from_str ==
    /\ pc = "from_str"
    /\ decoded' = DeserializeState(Unwrap(Unwrap(request)))
    /\ pc' = "roundtripped"
    /\ UNCHANGED <<run, request, state, started, checkpoint, cursor, tables_seen,
                   has_more, res, idx, out, calls, tracked, source, delivered, pulls>>

CodecNext ==
    \/ to_string
    \/ from_str

SpecCodec == CodecInit /\ [][CodecNext]_vars

(***************************************************************************)
(* Decoding of texts that are not the encoding of a State, as the tests    *)
(* refuses_unknown_state_object and refuses_unknown_checkpoint_object      *)
(* (sync.rs) run it: `request` is the text and `decoded` the result.       *)
(***************************************************************************)
\* Keys that are not fields of State, variant names that are not variants
\* of Checkpoint.
UnknownKeys == {"a", "snapshot"}
UnknownVariants == {"NewState"}

\* {"NewState": {"cursor": 42}}
NewStateJson == Obj1("NewState", Obj1("cursor", JInt(42)))

\* The object o with the key k set to the value v.
WithKey(o, k, v) == [x \in DOMAIN o \cup {k} |-> IF x = k THEN v ELSE o[x]]

\* The object o without the keys outside K.
Restrict(o, K) == [x \in DOMAIN o \cap K |-> o[x]]

\* The variant of an externally tagged enum value renamed to `variant`.
Retag(j, variant) == JObj([x \in {variant} |-> j[2][CHOOSE k \in DOMAIN j[2] : TRUE]])

\* The texts decoded: the encodings of the states, every one of them
\* reduced to some of its keys and given an unknown key, every one of them
\* with the variant of its checkpoint renamed, with and without
\* tablesSeen, and the texts of the two tests.
ValidJsons == UNION {Serializations(s) : s \in States}

UnknownKeyJsons ==
    {JObj(WithKey(Restrict(j[2], K), k, v)) :
        j \in ValidJsons, K \in SUBSET StateFields, k \in UnknownKeys,
        v \in {JStr("b"), NewStateJson}}

UnknownVariantJsons ==
    {JObj(WithKey(Restrict(j[2], K), "checkpoint", Retag(j[2]["checkpoint"], variant))) :
        j \in ValidJsons, K \in {StateFields, {"version", "checkpoint"}},
        variant \in UnknownVariants}

StrictJsons ==
    ValidJsons \cup UnknownKeyJsons \cup UnknownVariantJsons
        \cup {UnknownKeyJson, Obj2("version", JInt(1), "snapshot", NewStateJson)}

StrictInit ==
    /\ run = 0
    /\ pc = "from_str"
    /\ request \in {Some(Some(j)) : j \in StrictJsons}
    /\ decoded = None
    /\ state = None
    /\ started = NotStarted
    /\ checkpoint = None
    /\ cursor = 0
    /\ tables_seen = None
    /\ has_more = TRUE
    /\ res = NoResponse
    /\ idx = 1
    /\ out = <<>>
    /\ calls = <<>>
    /\ tracked = FALSE
    /\ source = FakeSource_default
    /\ delivered = <<>>
    /\ pulls = 0

StrictNext == from_str

SpecStrict == StrictInit /\ [][StrictNext]_vars

(***************************************************************************)
(* FakeSource (tests.rs): tables of documents and the log of the changes   *)
(* made to them.  `tables` maps the name of a table to its documents.      *)
(***************************************************************************)
\* Uuid::new_v4(): an identifier no other document has; the n-th change of
\* the log creates the document n.
DocId(n) == "d" \o ToString(n)

Remove(q, index) == SubSeq(q, 1, index - 1) \o SubSeq(q, index + 1, Len(q))

Skip(q, n) == SubSeq(q, n + 1, Len(q))

Take(q, n) == SubSeq(q, 1, IF Len(q) < n THEN Len(q) ELSE n)

DocsOf(src, table_name) ==
    IF table_name \in DOMAIN src.tables THEN src.tables[table_name] ELSE <<>>

WithTable(tables, table_name, docs) ==
    [t \in DOMAIN tables \cup {table_name} |-> IF t = table_name THEN docs ELSE tables[t]]

FakeSource_insert(src, table_name, body) ==
    LET value == Doc(DocId(Len(src.changelog) + 1), body)
    IN [tables |-> WithTable(src.tables, table_name,
                             Append(DocsOf(src, table_name), value)),
        changelog |-> Append(src.changelog, SnapshotValue(table_name, FALSE, value))]

FakeSource_patch(src, table_name, index, body) ==
    LET element == [src.tables[table_name][index] EXCEPT !.body = body]
    IN [tables |-> [src.tables EXCEPT ![table_name][index] = element],
        changelog |-> Append(src.changelog, SnapshotValue(table_name, FALSE, element))]

FakeSource_delete(src, table_name, index) ==
    LET id == src.tables[table_name][index]._id
    IN [tables |-> [src.tables EXCEPT ![table_name] = Remove(@, index)],
        changelog |-> Append(src.changelog, SnapshotValue(table_name, TRUE, [_id |-> id]))]

\* The order in which the HashMap of the tables is iterated.
TableOrder == <<"t1", "t2">>

RECURSIVE FlatValues(_, _)
FlatValues(src, i) ==
    IF i > Len(TableOrder) THEN <<>>
    ELSE LET docs == DocsOf(src, TableOrder[i])
         IN [n \in 1..Len(docs) |-> SnapshotValue(TableOrder[i], FALSE, docs[n])]
                \o FlatValues(src, i + 1)

\* cursor.parse().unwrap()
ParseCursor(c) == CHOOSE n \in 0..(Len(c) * 10) : ToString(n) = c

FakeSource_list_snapshot(src, snapshot, c) ==
    LET page == IF IsSome(c) THEN ParseCursor(Unwrap(c)) ELSE 0
        values == Take(Skip(FlatValues(src, 1), page * values_per_call), values_per_call)
    IN ListSnapshotResponse(values, Len(src.changelog), Some(ToString(page + 1)),
                            Len(values) = values_per_call)

FakeSource_document_deltas(src, c) ==
    LET values == Take(Skip(src.changelog, c), results_per_page)
    IN DocumentDeltasResponse(values, c + Len(values), Len(values) = results_per_page)

\* FakeSource::seeded(): one insert per element of `tables`.
RECURSIVE FakeSource_seeded(_)
FakeSource_seeded(tables) ==
    IF tables = <<>> THEN FakeSource_default
    ELSE FakeSource_insert(FakeSource_seeded(SubSeq(tables, 1, Len(tables) - 1)),
                           tables[Len(tables)], "a")

\* The tables of the documents the sources are seeded with.
Seedings ==
    { <<"t1">>,
      <<"t1", "t2">>,
      <<"t1", "t1", "t2">>,
      <<"t1", "t1", "t1">>,
      <<"t1", "t2", "t2", "t1">>,
      <<"t1", "t1", "t1", "t1">> }

(***************************************************************************)
(* FakeDestination (tests.rs): the tables built from the row operations    *)
(* received.  Its receive panics on an error item and on a Delete of a row *)
(* it does not hold.                                                       *)
(***************************************************************************)
FakeDestination_default == [tables |-> <<>>, panicked |-> FALSE]

RowsOf(dest, table_name) ==
    IF table_name \in DOMAIN dest.tables THEN dest.tables[table_name] ELSE <<>>

\* A Truncate clears the rows of the table.
Truncated(dest, table_name) ==
    [dest EXCEPT !.tables = WithTable(dest.tables, table_name, <<>>)]

receive_item(dest, m) ==
    IF dest.panicked THEN dest
    ELSE IF m.kind = "Err" THEN [dest EXCEPT !.panicked = TRUE]
    ELSE IF m.kind # "Update" THEN dest
    ELSE IF m.op_type = "Truncate" THEN Truncated(dest, m.table_name)
    ELSE LET table == RowsOf(dest, m.table_name)
             position == {i \in DOMAIN table : table[i]["_id"] = m.row["_id"]}
             index == CHOOSE i \in position : TRUE
         IN IF m.op_type = "Upsert"
            THEN [dest EXCEPT !.tables =
                     WithTable(dest.tables, m.table_name,
                               IF position # {} THEN [table EXCEPT ![index] = m.row]
                               ELSE Append(table, m.row))]
            ELSE IF position # {}
                 THEN [dest EXCEPT !.tables =
                          WithTable(dest.tables, m.table_name, Remove(table, index))]
                 ELSE [dest EXCEPT !.panicked = TRUE]

\* FakeDestination::default() after it has received the items.
RECURSIVE receive(_)
receive(items) ==
    IF items = <<>> THEN FakeDestination_default
    ELSE receive_item(receive(SubSeq(items, 1, Len(items) - 1)), items[Len(items)].msg)

(***************************************************************************)
(* The scenarios of tests.rs, which run the engines against the            *)
(* FakeSource: an initial sync, cut at one of its checkpoints and resumed  *)
(* or run to its end, changes of the source, a delta sync from the last    *)
(* checkpoint, and the fresh initial sync of assert_in_sync, whose         *)
(* destination is compared with the one that received the earlier streams. *)
(***************************************************************************)
FakeInit ==
    /\ run = 0
    /\ pc = "idle"
    /\ request = None
    /\ decoded = None
    /\ state = None
    /\ started = NotStarted
    /\ checkpoint = None
    /\ cursor = 0
    /\ tables_seen = None
    /\ has_more = TRUE
    /\ res = NoResponse
    /\ idx = 1
    /\ out = <<>>
    /\ calls = <<>>
    /\ tracked = FALSE
    /\ source \in {FakeSource_seeded(tables) : tables \in Seedings}
    /\ delivered = <<>>
    /\ pulls = 0

\* initial_sync(source, None, ts) called by a test: a fresh initial sync,
\* with tables_seen tracked (as sync starts it) or not.
CallInitialSyncDirect(ts) ==
    /\ request' = None
    /\ decoded' = None
    /\ state' = None
    /\ CallInitialSync(None, ts)
    /\ run' = run + 1
    /\ has_more' = TRUE
    /\ res' = NoResponse
    /\ idx' = 1
    /\ out' = <<>>
    /\ calls' = <<>>

\* destination.receive(initial_sync(source.clone())): the first stream the
\* destination receives.
FakeFirst ==
    /\ pc = "idle"
    /\ \E ts \in {None, Some({})} :
          /\ CallInitialSyncDirect(ts)
          /\ tracked' = IsSome(ts)
    /\ UNCHANGED <<source, delivered, pulls>>

\* The invocation is the fresh initial sync of assert_in_sync.
Comparing == ~IsSome(state) /\ delivered # <<>>

\* The state of the last Checkpoint of the stream.
latest_checkpoint ==
    out[CHOOSE i \in DOMAIN out :
            /\ out[i].msg.kind = "Checkpoint"
            /\ \A j \in DOMAIN out : j > i => out[j].msg.kind # "Checkpoint"].msg.state

\* source.list_snapshot(..) of the FakeSource, which panics on a snapshot
\* that is not its own.
FakeListSnapshot ==
    /\ pc = "is_fetch"
    /\ IsSome(ListSnapshotRequest.snapshot) =>
          Unwrap(ListSnapshotRequest.snapshot) = Len(source.changelog)
    /\ AwaitSource(ListSnapshotRequest,
                   Some(FakeSource_list_snapshot(source, ListSnapshotRequest.snapshot,
                                                 ListSnapshotRequest.cursor)),
                   "is_rows")

FakeDocumentDeltas ==
    /\ pc = "ds_fetch"
    /\ AwaitSource(DocumentDeltasRequest,
                   Some(FakeSource_document_deltas(source, DocumentDeltasRequest.cursor)),
                   "ds_rows")

\* The stream of an initial sync is dropped after an InitialSync
\* Checkpoint and a new invocation resumes from that Checkpoint.
CutAndResume ==
    /\ started.engine = "initial_sync"
    /\ ~Comparing
    /\ \E i \in DOMAIN out :
          /\ out[i].msg.kind = "Checkpoint"
          /\ out[i].msg.state.checkpoint.tag = "InitialSync"
          /\ out[i].msg.state.checkpoint.snapshot = Len(source.changelog)
          /\ delivered' = delivered \o SubSeq(out, 1, i)
          /\ \E j \in Serializations(out[i].msg.state) : update(Some(j))
    /\ UNCHANGED <<source, pulls>>

\* The changes the source goes through once the initial sync has ended.
Mutable ==
    /\ pc = "done"
    /\ started.engine = "initial_sync"
    /\ ~Comparing
    /\ Len(source.changelog) < latest_checkpoint.checkpoint.cursor + MaxMutations

FakeInsert ==
    /\ Mutable
    /\ \E table_name \in Tables : source' = FakeSource_insert(source, table_name, "a")
    /\ UNCHANGED <<run, pc, request, decoded, state, started, checkpoint, cursor,
                   tables_seen, has_more, res, idx, out, calls, tracked, delivered, pulls>>

FakePatch ==
    /\ Mutable
    /\ \E table_name \in DOMAIN source.tables :
          \E index \in DOMAIN source.tables[table_name] :
              source' = FakeSource_patch(source, table_name, index, "b")
    /\ UNCHANGED <<run, pc, request, decoded, state, started, checkpoint, cursor,
                   tables_seen, has_more, res, idx, out, calls, tracked, delivered, pulls>>

FakeDelete ==
    /\ Mutable
    /\ \E table_name \in DOMAIN source.tables :
          \E index \in DOMAIN source.tables[table_name] :
              source' = FakeSource_delete(source, table_name, index)
    /\ UNCHANGED <<run, pc, request, decoded, state, started, checkpoint, cursor,
                   tables_seen, has_more, res, idx, out, calls, tracked, delivered, pulls>>

\* delta_sync from the latest checkpoint of the initial sync that ended.
DeltaResume ==
    /\ pc = "done"
    /\ started.engine = "initial_sync"
    /\ ~Comparing
    /\ delivered' = delivered \o out
    /\ \E j \in Serializations(latest_checkpoint) : update(Some(j))
    /\ UNCHANGED <<source, pulls>>

\* assert_in_sync: a fresh initial sync of the source into a new
\* destination, run once the streams the destination received cover the
\* source: after a resumed initial sync of the unchanged source, or after
\* the delta sync that followed the changes.
FreshCompare ==
    /\ pc = "done"
    /\ IsSome(state)
    /\ started.engine = "initial_sync" =>
          Len(source.changelog) = latest_checkpoint.checkpoint.cursor
    /\ delivered' = delivered \o out
    /\ CallInitialSyncDirect(IF tracked THEN Some({}) ELSE None)
    /\ UNCHANGED <<source, tracked, pulls>>

FakeNext ==
    \/ FakeFirst
    \/ CutAndResume
    \/ FakeInsert
    \/ FakePatch
    \/ FakeDelete
    \/ DeltaResume
    \/ FreshCompare
    \/ InitialStart
    \/ FakeListSnapshot
    \/ InitialTruncate
    \/ InitialUpsert
    \/ InitialCheckpoint
    \/ InitialFinish
    \/ InitialClosing
    \/ DeltaStart
    \/ FakeDocumentDeltas
    \/ DeltaTruncate
    \/ DeltaRow
    \/ DeltaCheckpoint
    \/ DeltaClosing

SpecFake == FakeInit /\ [][FakeNext]_vars

(***************************************************************************)
(* Resumption from a checkpoint.  A run against the FakeSource goes to its *)
(* end, uninterrupted; then a new invocation is started from the state of  *)
(* one of the Checkpoints of that run, as it is after a cut that let that  *)
(* Checkpoint through and nothing after it.  `delivered` keeps the         *)
(* uninterrupted run, with which the resumed one is compared.  The source  *)
(* changes between the first run, a fresh initial sync, and the second.    *)
(***************************************************************************)
\* source.insert(..) / source.delete(..) once the initial sync has ended.
Change ==
    /\ pc = "done"
    /\ started.engine = "initial_sync"
    /\ delivered = <<>>
    /\ Len(source.changelog) < latest_checkpoint.checkpoint.cursor + MaxMutations + 1
    /\ \E table_name \in Tables :
          \/ source' = FakeSource_insert(source, table_name, "a")
          \/ /\ DocsOf(source, table_name) # <<>>
             /\ source' = FakeSource_delete(source, table_name, 1)
    /\ UNCHANGED <<run, pc, request, decoded, state, started, checkpoint, cursor,
                   tables_seen, has_more, res, idx, out, calls, tracked, delivered, pulls>>

\* The update request that follows a cut: the state of a Checkpoint of the
\* run is handed back.
Replay ==
    /\ pc = "done"
    /\ run < MaxRuns + 1
    /\ \E i \in DOMAIN out :
          /\ out[i].msg.kind = "Checkpoint"
          /\ \E j \in Serializations(out[i].msg.state) : update(Some(j))
    /\ delivered' = out
    /\ UNCHANGED <<source, pulls>>

ResumeNext ==
    \/ FakeFirst
    \/ Change
    \/ Replay
    \/ InitialStart
    \/ FakeListSnapshot
    \/ InitialTruncate
    \/ InitialUpsert
    \/ InitialCheckpoint
    \/ InitialFinish
    \/ InitialClosing
    \/ DeltaStart
    \/ FakeDocumentDeltas
    \/ DeltaTruncate
    \/ DeltaRow
    \/ DeltaCheckpoint
    \/ DeltaClosing

SpecResume == FakeInit /\ [][ResumeNext]_vars

(***************************************************************************)
(* Config::from_parameters (config.rs), run as its tests run it: `request` *)
(* is the configuration and the allow_all_hosts flag, `decoded` the        *)
(* result.  A configuration maps "url" and "key" to texts.  The text of a  *)
(* URL is written by its parts: scheme, user name, password, host (the     *)
(* labels between the dots), port, path, query and fragment; the other     *)
(* texts are not URLs.                                                     *)
(***************************************************************************)
UrlText(scheme, username, password, host, port, path, query, fragment) ==
    [scheme |-> scheme, username |-> username, password |-> password, host |-> host,
     port |-> port, path |-> path, query |-> query, fragment |-> fragment]

\* "aware lalama convex" and "/": texts Url::parse refuses.
NotUrls == {[text |-> "aware lalama convex"], [text |-> "/"]}

\* The URL texts tried: every combination of the parts the tests of
\* config.rs vary.
UrlTexts ==
    {UrlText(s, u, pw, h, p, pa, q, f) :
        s \in {"https", "http", "ftp", "mailto"},
        u \in {"", "root"},
        pw \in {None, Some("hunter2")},
        h \in {None, Some(<<"localhost">>), Some(<<"aware-llama-900", "convex", "cloud">>),
               Some(<<"convex", "cloud">>), Some(<<"convex", "cloud", "example", "com">>)},
        p \in {None, Some(80), Some(443), Some(1337)},
        pa \in {"", "/", "/api/"},
        q \in {None, Some("abc")},
        f \in {None, Some("abc")}}

VALID_DEPLOY_KEY == "prod:aware-llama-900|016b"

Configurations ==
    {[url |-> u, key |-> k] :
        u \in {None} \cup {Some(t) : t \in NotUrls \cup UrlTexts},
        k \in {None, Some(VALID_DEPLOY_KEY)}}

\* The default port of the schemes that have one; their URLs always have
\* a host and a path.
DefaultPort(scheme) ==
    IF scheme = "https" THEN Some(443)
    ELSE IF scheme = "http" THEN Some(80)
    ELSE IF scheme = "ftp" THEN Some(21)
    ELSE None

\* Url::parse: None for a text that is not an absolute URL or that lacks
\* the host its scheme requires; otherwise the Url, whose port is absent
\* when it is the default port of the scheme and whose path is "/" when
\* the text of a URL with a host has none.
Url_parse(text) ==
    IF text \in NotUrls THEN None
    ELSE IF IsSome(DefaultPort(text.scheme)) /\ ~IsSome(text.host) THEN None
    ELSE Some([text EXCEPT
                 !.port = IF text.port = DefaultPort(text.scheme) THEN None ELSE text.port,
                 !.path = IF IsSome(DefaultPort(text.scheme)) /\ text.path = ""
                          THEN "/" ELSE text.path])

\* host.ends_with(".convex.cloud")
EndsWithConvexCloud(host) ==
    /\ Len(host) >= 3
    /\ host[Len(host) - 1] = "convex"
    /\ host[Len(host)] = "cloud"

\* Mutant: a fragment is accepted.
NotRootUrl_ignores_fragment(deploy_url) ==
    \/ deploy_url.path # "/"
    \/ IsSome(deploy_url.query)
    \/ deploy_url.username # ""
    \/ IsSome(deploy_url.password)
    \/ (deploy_url.scheme # "http" /\ deploy_url.scheme # "https")

\* The condition of "must be a root URL".
NotRootUrl(deploy_url) ==
    \/ deploy_url.path # "/"
    \/ IsSome(deploy_url.query)
    \/ deploy_url.username # ""
    \/ IsSome(deploy_url.password)
    \/ IsSome(deploy_url.fragment)
    \/ (deploy_url.scheme # "http" /\ deploy_url.scheme # "https")

\* Mutant: the port is not looked at.
NotConvexUrl_ignores_port(deploy_url, host) ==
    \/ deploy_url.scheme # "https"
    \/ ~EndsWithConvexCloud(host)

\* The condition of "must be a Convex deployment URL".
NotConvexUrl(deploy_url, host) ==
    \/ IsSome(deploy_url.port)
    \/ deploy_url.scheme # "https"
    \/ ~EndsWithConvexCloud(host)

Bail(message) == [ok |-> FALSE, error |-> message]

Config(deploy_url, deploy_key) ==
    [ok |-> TRUE, deploy_url |-> deploy_url, deploy_key |-> deploy_key]

from_parameters(configuration, allow_all_hosts) ==
    IF ~IsSome(configuration.url) THEN Bail("Missing url")
    ELSE IF ~IsSome(Url_parse(Unwrap(configuration.url)))
    THEN Bail("Invalid url (must be an URL)")
    ELSE LET deploy_url == Unwrap(Url_parse(Unwrap(configuration.url))) IN
         IF ~IsSome(deploy_url.host) THEN Bail("Invalid deploy URL: must contain a host.")
         ELSE IF NotRootUrl(deploy_url) THEN Bail("Invalid deploy URL: must be a root URL.")
         ELSE IF ~allow_all_hosts /\ NotConvexUrl(deploy_url, Unwrap(deploy_url.host))
         THEN Bail("Invalid deploy URL: must be a Convex deployment URL.")
         ELSE IF ~IsSome(configuration.key) THEN Bail("Missing key")
         ELSE Config(deploy_url, Unwrap(configuration.key))

ConfigInit ==
    /\ run = 0
    /\ pc = "from_parameters"
    /\ request \in {Some([configuration |-> c, allow_all_hosts |-> a]) :
                       c \in Configurations, a \in BOOLEAN}
    /\ decoded = None
    /\ state = None
    /\ started = NotStarted
    /\ checkpoint = None
    /\ cursor = 0
    /\ tables_seen = None
    /\ has_more = TRUE
    /\ res = NoResponse
    /\ idx = 1
    /\ out = <<>>
    /\ calls = <<>>
    /\ tracked = FALSE
    /\ source = FakeSource_default
    /\ delivered = <<>>
    /\ pulls = 0

CallFromParameters ==
    /\ pc = "from_parameters"
    /\ decoded' = Some(from_parameters(Unwrap(request).configuration,
                                       Unwrap(request).allow_all_hosts))
    /\ pc' = "configured"
    /\ UNCHANGED <<run, request, state, started, checkpoint, cursor, tables_seen,
                   has_more, res, idx, out, calls, tracked, source, delivered, pulls>>

ConfigNext == CallFromParameters

SpecConfig == ConfigInit /\ [][ConfigNext]_vars

(***************************************************************************)
(* The schema endpoint.  Source::get_columns (convex_api.rs) turns the     *)
(* DatabaseSchema of json_schemas into the column names of each table;     *)
(* ConvexConnector::_schema (connector.rs) builds the tables of the        *)
(* SchemaResponse from them.  A field name is the sequence of its          *)
(* characters, so that `starts_with('_')` is a test on the name.  `request`*)
(* holds the configuration of the SchemaRequest and what json_schemas      *)
(* answers, `decoded` the result of the endpoint.                          *)
(***************************************************************************)
\* What json_schemas can return: None for Err, or a DatabaseSchema, a map
\* from table names to Schema::Bool or Schema::Object whose `object` is
\* absent or has `properties`.  The tables and properties are those of the
\* test can_deserialize_schema, the properties in the order of their map.
DatabaseSchemas ==
    LET properties == << <<"_", "c", "r", "e", "a", "t", "i", "o", "n", "T", "i", "m", "e">>,
                         <<"_", "d", "e", "l", "e", "t", "e", "d">>,
                         <<"_", "i", "d">>,
                         <<"_", "t", "a", "b", "l", "e">>,
                         <<"_", "t", "s">>,
                         <<"a", "u", "t", "h", "o", "r">>,
                         <<"b", "o", "d", "y">> >>
        Keep(S) == LET Kept(key) == key \in S IN SelectSeq(properties, Kept)
        Schemas == {[tag |-> "Bool", object |-> None], [tag |-> "Object", object |-> None]}
                       \cup {[tag |-> "Object", object |-> Some([properties |-> Keep(S)])] :
                                S \in SUBSET {properties[i] : i \in DOMAIN properties}}
    IN {None} \cup {Some(s) : s \in UNION {[T -> Schemas] : T \in SUBSET {"emptyTable", "table"}}}

\* Mutant: the properties are not filtered.
get_columns_keeps_all(schema) ==
    LET system_columns == << <<"_", "i", "d">>,
                             <<"_", "c", "r", "e", "a", "t", "i", "o", "n", "T", "i", "m", "e">> >>
        user_columns(table_schema) ==
            IF table_schema.tag = "Bool" THEN <<>>
            ELSE Unwrap(table_schema.object).properties
    IN IF ~IsSome(schema) THEN None
       ELSE LET tables == Unwrap(schema) IN
            IF \E table_name \in DOMAIN tables :
                  tables[table_name].tag = "Object" /\ ~IsSome(tables[table_name].object)
            THEN None
            ELSE Some([table_name \in DOMAIN tables |->
                          system_columns \o user_columns(tables[table_name])])

\* Source::get_columns with `schema` the result of json_schemas: None for
\* Err, or the map from table names to column names.
get_columns(schema) ==
    LET system_columns == << <<"_", "i", "d">>,
                             <<"_", "c", "r", "e", "a", "t", "i", "o", "n", "T", "i", "m", "e">> >>
        NotSystem(key) == ~(Len(key) > 0 /\ key[1] = "_")
        user_columns(table_schema) ==
            IF table_schema.tag = "Bool" THEN <<>>
            ELSE SelectSeq(Unwrap(table_schema.object).properties, NotSystem)
    IN IF ~IsSome(schema) THEN None
       ELSE LET tables == Unwrap(schema) IN
            IF \E table_name \in DOMAIN tables :
                  tables[table_name].tag = "Object" /\ ~IsSome(tables[table_name].object)
            THEN None
            ELSE Some([table_name \in DOMAIN tables |->
                          system_columns \o user_columns(tables[table_name])])

\* ConvexConnector::_schema: the tables built from the columns, in the
\* iteration order `order` of the map, followed by the cursor table; an
\* error when the configuration or get_columns fails.
ConvexConnector_schema(configuration, allow_all_hosts, schema, order) ==
    LET Column(column_name) ==
            [name |-> column_name,
             type |-> IF column_name = <<"_", "i", "d">> THEN "String"
                      ELSE IF column_name =
                              <<"_", "c", "r", "e", "a", "t", "i", "o", "n", "T", "i", "m", "e">>
                           THEN "UtcDatetime"
                           ELSE "Unspecified",
             primary_key |-> column_name = <<"_", "i", "d">>]
        Table(table_name, column_names) ==
            [name |-> table_name,
             columns |-> [i \in DOMAIN column_names |-> Column(column_names[i])]]
        columns == get_columns(schema)
    IN IF ~from_parameters(configuration, allow_all_hosts).ok
       THEN [ok |-> FALSE, error |-> from_parameters(configuration, allow_all_hosts).error]
       ELSE IF ~IsSome(columns) THEN [ok |-> FALSE, error |-> "get_columns"]
       ELSE [ok |-> TRUE,
             tables |-> [i \in DOMAIN order |-> Table(order[i], Unwrap(columns)[order[i]])]
                            \o << [name |-> "CONVEX_CURSOR_TABLE",
                                   columns |-> << [name |-> "CONVEX_CURSOR_TABLE_COLUMN",
                                                   type |-> "Long",
                                                   primary_key |-> TRUE] >>] >>,
             selection_not_supported |-> Some(TRUE)]

SchemaInit ==
    /\ run = 0
    /\ pc = "schema"
    /\ request \in
          {Some([configuration |-> [url |-> Some(UrlText("https", "", None,
                                                 Some(<<"aware-llama-900", "convex", "cloud">>),
                                                 None, "", None, None)),
                                    key |-> k],
                 allow_all_hosts |-> FALSE,
                 json_schemas |-> s]) :
              k \in {None, Some(VALID_DEPLOY_KEY)}, s \in DatabaseSchemas}
    /\ decoded = None
    /\ state = None
    /\ started = NotStarted
    /\ checkpoint = None
    /\ cursor = 0
    /\ tables_seen = None
    /\ has_more = TRUE
    /\ res = NoResponse
    /\ idx = 1
    /\ out = <<>>
    /\ calls = <<>>
    /\ tracked = FALSE
    /\ source = FakeSource_default
    /\ delivered = <<>>
    /\ pulls = 0

\* The schema endpoint serves the request.
CallSchema ==
    /\ pc = "schema"
    /\ \E order \in Orderings(IF IsSome(Unwrap(request).json_schemas)
                              THEN DOMAIN Unwrap(Unwrap(request).json_schemas)
                              ELSE {}) :
          decoded' = Some(ConvexConnector_schema(Unwrap(request).configuration,
                                                 Unwrap(request).allow_all_hosts,
                                                 Unwrap(request).json_schemas,
                                                 order))
    /\ pc' = "schema_done"
    /\ UNCHANGED <<run, request, state, started, checkpoint, cursor, tables_seen,
                   has_more, res, idx, out, calls, tracked, source, delivered, pulls>>

SchemaNext == CallSchema

SpecSchema == SchemaInit /\ [][SchemaNext]_vars

(***************************************************************************)
(* Vocabulary of the properties.                                           *)
(***************************************************************************)
\* A stream of sync exists.
Running == pc \notin {"idle", "failed", "to_string", "from_str", "roundtripped"}

Msg(i) == out[i].msg

IsTruncate(i) == Msg(i).kind = "Update" /\ Msg(i).op_type = "Truncate"

\* An Upsert or Delete row operation.
IsData(i) == Msg(i).kind = "Update" /\ Msg(i).op_type \in {"Upsert", "Delete"}

IsRowOp(i) == Msg(i).kind = "Update"

IsCheckpoint(i) == Msg(i).kind = "Checkpoint"

IsErr(i) == Msg(i).kind = "Err"

\* The k-th Source call returned a response.
Answered(k) == IsSome(calls[k].resp)

Response(k) == Unwrap(calls[k].resp)

\* The Upsert/Delete operations yielded for page k before position i.
DataOfPageBefore(k, i) == {j \in 1..(i - 1) : IsData(j) /\ out[j].page = k}

(***************************************************************************)
(* C1. With tables_seen tracked at the start of initial_sync or            *)
(* delta_sync, every Upsert or Delete for a table outside the starting     *)
(* tables_seen is preceded in the stream by a Truncate for that table.     *)
(***************************************************************************)
C1_TruncateBeforeData ==
    (Running /\ IsSome(started.tables_seen)) =>
        \A i \in DOMAIN out :
            (IsData(i) /\ Msg(i).table_name \notin Unwrap(started.tables_seen)) =>
                \E j \in 1..(i - 1) :
                    IsTruncate(j) /\ Msg(j).table_name = Msg(i).table_name

C1_Witness ==
    /\ Running
    /\ IsSome(started.tables_seen)
    /\ started.engine = "delta_sync"
    /\ \E i, j \in DOMAIN out :
          /\ j < i
          /\ IsTruncate(j)
          /\ IsData(i)
          /\ Msg(i).op_type = "Delete"
          /\ Msg(j).table_name = Msg(i).table_name
          /\ Msg(i).table_name \notin Unwrap(started.tables_seen)

(***************************************************************************)
(* C2. Every Checkpoint comes after all the row operations of the page it  *)
(* summarizes (one Upsert/Delete per value of the response has been        *)
(* yielded), and no row operation of that page or of an earlier page comes *)
(* after it: row operations after it belong to a following page.           *)
(***************************************************************************)
C2_CheckpointAfterPage ==
    Running =>
        \A i \in DOMAIN out :
            IsCheckpoint(i) =>
                LET k == out[i].page IN
                /\ k \in DOMAIN calls
                /\ Answered(k)
                /\ Cardinality(DataOfPageBefore(k, i)) = Len(Response(k).values)
                /\ \A j \in DOMAIN out : (IsRowOp(j) /\ out[j].page <= k) => j < i
                /\ \A j \in DOMAIN out : (IsRowOp(j) /\ j > i) => out[j].page > k

C2_Witness ==
    /\ Running
    /\ \E i, j, l \in DOMAIN out :
          /\ j < i /\ i < l
          /\ IsData(j) /\ IsCheckpoint(i) /\ IsData(l)
          /\ out[j].page = 1 /\ out[i].page = 1 /\ out[l].page = 2

(***************************************************************************)
(* C3. No page request follows a response with has_more = false, and a     *)
(* response with has_more = true is followed by exactly one more request:  *)
(* once its Checkpoint is yielded the engine stands at the next request,   *)
(* and the stream only completes after a response with has_more = false.   *)
(***************************************************************************)
C3_Pagination ==
    Running =>
        /\ \A k \in DOMAIN calls :
              k < Len(calls) => (Answered(k) /\ Response(k).has_more)
        /\ pc \in {"is_closing", "ds_closing", "done"} =>
              (calls # <<>> /\ Answered(Len(calls)) /\ ~Response(Len(calls)).has_more)
        /\ (out # <<>> /\ IsCheckpoint(Len(out)) /\ out[Len(out)].page = Len(calls)
               /\ Response(Len(calls)).has_more) =>
              pc \in {"is_fetch", "ds_fetch"}
        /\ pc \in {"is_fetch", "ds_fetch"} =>
              (calls = <<>> \/ (Answered(Len(calls)) /\ Response(Len(calls)).has_more))

C3_Witness ==
    /\ pc = "done"
    /\ Len(calls) = 2
    /\ Response(1).has_more
    /\ ~Response(2).has_more

(***************************************************************************)
(* C4 (as claimed). After a list_snapshot response with has_more = true    *)
(* and no continuation cursor is received, no row operation, no Checkpoint *)
(* and no page request follows.                                            *)
(***************************************************************************)
MissingCursorPage(k) ==
    /\ calls[k].req.fn = "list_snapshot"
    /\ Answered(k)
    /\ Response(k).has_more
    /\ ~IsSome(Response(k).cursor)

C4_NothingAfterMissingCursor ==
    Running =>
        \A k \in DOMAIN calls :
            MissingCursorPage(k) =>
                /\ k = Len(calls)
                /\ \A i \in DOMAIN out : (IsRowOp(i) \/ IsCheckpoint(i)) => out[i].page < k

(***************************************************************************)
(* C4 (amended). A list_snapshot response with has_more = true and no      *)
(* continuation cursor ends the stream with an error once the row          *)
(* operations of that response have been yielded: no Checkpoint for it, no *)
(* further page request and no successful completion follow, and when      *)
(* every value of the page was converted the stream ends with the          *)
(* missing-cursor error.                                                   *)
(***************************************************************************)
C4_MissingCursorIsFatal ==
    Running =>
        \A k \in DOMAIN calls :
            MissingCursorPage(k) =>
                /\ k = Len(calls)
                /\ pc \in {"is_rows", "is_upsert", "error"}
                /\ \A i \in DOMAIN out : IsCheckpoint(i) => out[i].page < k
                /\ pc = "error" =>
                      /\ IsErr(Len(out))
                      /\ Msg(Len(out)).error \in {"MissingCursor", "Conversion"}
                      /\ Msg(Len(out)).error = "MissingCursor" <=>
                            Cardinality(DataOfPageBefore(k, Len(out))) = Len(Response(k).values)

C4_Witness ==
    /\ pc = "error"
    /\ calls # <<>>
    /\ MissingCursorPage(Len(calls))
    /\ Msg(Len(out)).error = "MissingCursor"
    /\ \E i \in DOMAIN out : IsData(i) /\ out[i].page = Len(calls)

(***************************************************************************)
(* C5. In an initial_sync run that completes without error the final       *)
(* Checkpoint is DeltaUpdates with the snapshot of the last list_snapshot  *)
(* response as cursor and the accumulated tables_seen, and only the        *)
(* closing Log follows it.                                                 *)
(***************************************************************************)
LastCheckpoint == CHOOSE i \in DOMAIN out : IsCheckpoint(i) /\ \A j \in DOMAIN out : j > i => ~IsCheckpoint(j)

C5_FinalCheckpointIsLastSnapshot ==
    (started.engine = "initial_sync" /\ pc = "done") =>
        /\ \E i \in DOMAIN out : IsCheckpoint(i)
        /\ Msg(LastCheckpoint).state.checkpoint =
              DeltaUpdatesCheckpoint(Response(Len(calls)).snapshot)
        /\ Msg(LastCheckpoint).state.tables_seen = tables_seen
        /\ LastCheckpoint = Len(out) - 1
        /\ Msg(Len(out)) = Log("Initial sync successful")

(***************************************************************************)
(* C6. sync selects the engine from the state alone: an absent state or an *)
(* InitialSync checkpoint calls only list_snapshot, first with the state's *)
(* (snapshot, cursor) (none/none when absent); a DeltaUpdates checkpoint   *)
(* calls only document_deltas, first with the state's cursor; tables_seen  *)
(* is handed over unchanged, the empty set for an absent state.            *)
(***************************************************************************)
C6_Dispatch ==
    Running =>
        IF ~IsSome(state)
        THEN /\ started.tables_seen = Some({})
             /\ \A k \in DOMAIN calls : calls[k].req.fn = "list_snapshot"
             /\ calls # <<>> => (calls[1].req.snapshot = None /\ calls[1].req.cursor = None)
        ELSE IF Unwrap(state).checkpoint.tag = "InitialSync"
        THEN /\ started.tables_seen = Unwrap(state).tables_seen
             /\ \A k \in DOMAIN calls : calls[k].req.fn = "list_snapshot"
             /\ calls # <<>> =>
                   /\ calls[1].req.snapshot = Some(Unwrap(state).checkpoint.snapshot)
                   /\ calls[1].req.cursor = Some(Unwrap(state).checkpoint.cursor)
        ELSE /\ started.tables_seen = Unwrap(state).tables_seen
             /\ \A k \in DOMAIN calls : calls[k].req.fn = "document_deltas"
             /\ calls # <<>> => calls[1].req.cursor = Unwrap(state).checkpoint.cursor

C6_Witness ==
    /\ Running
    /\ IsSome(state)
    /\ Unwrap(state).checkpoint = InitialSyncCheckpoint(2, "c2")
    /\ Unwrap(state).tables_seen = Some({"t1"})
    /\ Len(calls) = 2

(***************************************************************************)
(* C7. In a chain started from a state without tables_seen, no invocation  *)
(* yields a Truncate, every Checkpoint has tables_seen absent, and every   *)
(* resumed invocation again starts without tables_seen.                    *)
(***************************************************************************)
C7_LegacyStaysUntracked ==
    (Running /\ ~tracked) =>
        /\ IsSome(state)
        /\ Unwrap(state).tables_seen = None
        /\ started.tables_seen = None
        /\ \A i \in DOMAIN out : ~IsTruncate(i)
        /\ \A i \in DOMAIN out : IsCheckpoint(i) => Msg(i).state.tables_seen = None

C7_Witness ==
    /\ Running
    /\ ~tracked
    /\ run = 2
    /\ \E i, j \in DOMAIN out : i < j /\ IsData(i) /\ IsCheckpoint(j)

(***************************************************************************)
(* C8. sync without a state runs initial_sync with no snapshot, no cursor  *)
(* and the empty tables_seen: every table gets a Truncate before its first *)
(* row and the Checkpoints carry a tables_seen.                            *)
(***************************************************************************)
C8_AbsentStateIsFreshTrackedSync ==
    (Running /\ ~IsSome(state)) =>
        /\ started = [engine |-> "initial_sync", checkpoint |-> None, cursor |-> 0,
                      tables_seen |-> Some({})]
        /\ calls # <<>> => (calls[1].req.snapshot = None /\ calls[1].req.cursor = None)
        /\ \A i \in DOMAIN out :
              IsData(i) =>
                  \E j \in 1..(i - 1) : IsTruncate(j) /\ Msg(j).table_name = Msg(i).table_name
        /\ \A i \in DOMAIN out : IsCheckpoint(i) => IsSome(Msg(i).state.tables_seen)

C8_Witness ==
    /\ Running
    /\ ~IsSome(state)
    /\ \E i, j, l \in DOMAIN out :
          /\ i < j /\ j < l
          /\ IsTruncate(i) /\ IsData(j) /\ IsCheckpoint(l)
          /\ Msg(l).state.tables_seen = Some({"t1", "t2"})

(***************************************************************************)
(* C9. An update request whose state_json is absent or {} decodes to the   *)
(* absent state and starts a fresh initial sync: list_snapshot with no     *)
(* snapshot and no cursor.                                                 *)
(***************************************************************************)
C9_EmptyObjectStartsFreshSync ==
    (pc # "idle" /\ request \in {Some(None), Some(Some(EmptyObject))}) =>
        /\ pc # "failed"
        /\ started.engine = "initial_sync"
        /\ started.checkpoint = None

(***************************************************************************)
(* C10. Reading back the JSON text written for a State gives the State:    *)
(* deserialize(serialize(s)) = s, for any version, checkpoint variant and  *)
(* tables_seen.                                                            *)
(***************************************************************************)
C10_RoundTrip == pc = "roundtripped" => decoded = state

C10_Witness ==
    /\ pc = "roundtripped"
    /\ IsSome(decoded)
    /\ Unwrap(decoded).version = 2
    /\ Unwrap(decoded).checkpoint.tag = "InitialSync"
    /\ Unwrap(decoded).tables_seen = Some({})

(***************************************************************************)
(* C11. Decoding a State from an object with a top-level key that is not a *)
(* field of State, or whose checkpoint is tagged with a name that is not a *)
(* variant of Checkpoint, fails, whichever valid keys the object also has. *)
(***************************************************************************)
Decoded == Unwrap(Unwrap(request))[2]

HasUnknownKey == \E k \in UnknownKeys : k \in DOMAIN Decoded

HasUnknownVariant ==
    /\ "checkpoint" \in DOMAIN Decoded
    /\ \E variant \in UnknownVariants : variant \in DOMAIN Decoded["checkpoint"][2]

C11_StrictDecoding ==
    (pc = "roundtripped" /\ (HasUnknownKey \/ HasUnknownVariant)) => decoded = None

C11_Witness ==
    /\ pc = "roundtripped"
    /\ decoded = None
    /\ HasUnknownKey
    /\ StateFields \subseteq DOMAIN Decoded
    /\ IsSome(DeserializeState(JObj(Restrict(Decoded, StateFields))))

C11_WitnessVariant ==
    /\ pc = "roundtripped"
    /\ decoded = None
    /\ ~HasUnknownKey
    /\ HasUnknownVariant
    /\ DOMAIN Decoded = StateFields

(***************************************************************************)
(* C12. When the state of an update request does not decode, the request   *)
(* fails as a whole: no stream is built, no Source call is issued and no   *)
(* Log, row operation or Checkpoint is produced.                           *)
(***************************************************************************)
C12_DecodeFailureFailsInvocation ==
    (pc # "idle" /\ IsSome(request) /\ ~IsSome(decoded)) =>
        /\ pc = "failed"
        /\ started = NotStarted
        /\ calls = <<>>
        /\ out = <<>>

C12_Witness ==
    /\ pc = "failed"
    /\ request = Some(Some(UnknownKeyJson))
    /\ decoded = None
    /\ run = 1

(***************************************************************************)
(* C15. A Source call that fails adds its error, and nothing else, to the  *)
(* stream, whose earlier items are kept; the error is the last item: the   *)
(* call is not retried and no Source call, Checkpoint, row operation or    *)
(* Log follows in the invocation (only a new invocation can follow).       *)
(***************************************************************************)
SourceFails ==
    /\ run' = run
    /\ Len(calls') = Len(calls) + 1
    /\ ~IsSome(calls'[Len(calls')].resp)

SourceFailed == Running /\ calls # <<>> /\ ~Answered(Len(calls))

C15_SourceFailureEndsStream ==
    [][/\ SourceFails =>
             /\ out' = Append(out, [msg |-> Err("Source"), page |-> Len(calls')])
             /\ pc' = "error"
       /\ SourceFailed => (run' # run /\ calls' = <<>> /\ out' = <<>>)]_vars

C15_Witness ==
    /\ SourceFailed
    /\ pc = "error"
    /\ started.engine = "delta_sync"
    /\ Len(calls) = 2
    /\ Msg(Len(out)) = Err("Source")
    /\ \E i, j \in DOMAIN out : i < j /\ IsData(i) /\ IsCheckpoint(j)

(***************************************************************************)
(* C16 (as claimed). Whatever the source answers, the cursors of the       *)
(* DeltaUpdates Checkpoints of an invocation never decrease, and they are  *)
(* not below the DeltaUpdates cursor the invocation resumed from.          *)
(***************************************************************************)
IsDeltaCheckpoint(i) == IsCheckpoint(i) /\ Msg(i).state.checkpoint.tag = "DeltaUpdates"

IsInitialCheckpoint(i) == IsCheckpoint(i) /\ Msg(i).state.checkpoint.tag = "InitialSync"

DeltaCursor(i) == Msg(i).state.checkpoint.cursor

CursorsNonDecreasing ==
    \A i \in DOMAIN out :
        IsDeltaCheckpoint(i) =>
            /\ started.engine = "delta_sync" => started.cursor <= DeltaCursor(i)
            /\ \A j \in 1..(i - 1) : IsDeltaCheckpoint(j) => DeltaCursor(j) <= DeltaCursor(i)

C16_CursorsNeverRegress == Running => CursorsNonDecreasing

(***************************************************************************)
(* C16 (amended). The cursor of a DeltaUpdates Checkpoint is, in           *)
(* initial_sync, the snapshot of the latest InitialSync checkpoint (the    *)
(* last one yielded, else the one resumed from) and, in delta_sync, the    *)
(* cursor of the document_deltas response of its page, which was requested *)
(* with the previous DeltaUpdates cursor.  The cursors never decrease      *)
(* provided no response carries a cursor below the one requested.          *)
(***************************************************************************)
\* The snapshot of the InitialSync checkpoint in force at position i.
SnapshotInForce(i) ==
    IF \E j \in 1..(i - 1) : IsInitialCheckpoint(j)
    THEN Msg(CHOOSE j \in 1..(i - 1) :
                 /\ IsInitialCheckpoint(j)
                 /\ \A l \in (j + 1)..(i - 1) : ~IsInitialCheckpoint(l)).state.checkpoint.snapshot
    ELSE Unwrap(started.checkpoint)[1]

\* No document_deltas response carries a cursor below the requested one.
SourceCursorsAdvance ==
    \A k \in DOMAIN calls :
        (calls[k].req.fn = "document_deltas" /\ Answered(k)) =>
            calls[k].req.cursor <= Response(k).cursor

C16_CursorProvenance ==
    Running =>
        /\ \A i \in DOMAIN out :
              IsDeltaCheckpoint(i) =>
                  IF started.engine = "initial_sync"
                  THEN DeltaCursor(i) = SnapshotInForce(i)
                  ELSE /\ DeltaCursor(i) = Response(out[i].page).cursor
                       /\ calls[out[i].page].req.cursor =
                             IF \E j \in 1..(i - 1) : IsDeltaCheckpoint(j)
                             THEN DeltaCursor(CHOOSE j \in 1..(i - 1) :
                                      /\ IsDeltaCheckpoint(j)
                                      /\ \A l \in (j + 1)..(i - 1) : ~IsDeltaCheckpoint(l))
                             ELSE started.cursor
        /\ SourceCursorsAdvance => CursorsNonDecreasing

C16_Witness ==
    /\ Running
    /\ run = 2
    /\ started.engine = "delta_sync"
    /\ started.cursor = 1
    /\ SourceCursorsAdvance
    /\ \E i, j \in DOMAIN out :
          /\ i < j
          /\ IsDeltaCheckpoint(i) /\ IsDeltaCheckpoint(j)
          /\ DeltaCursor(i) = 1 /\ DeltaCursor(j) = 2

(***************************************************************************)
(* C17. delta_sync yields one Checkpoint per document_deltas response,     *)
(* never two: once the values of a response have been iterated, the        *)
(* response has exactly one Checkpoint, whether it is the last one         *)
(* (has_more = false) or has no values; that Checkpoint is DeltaUpdates    *)
(* with the cursor of the response, and the next document_deltas request,  *)
(* if any, carries that cursor.                                            *)
(***************************************************************************)
CheckpointsOfPage(k) == {i \in DOMAIN out : IsCheckpoint(i) /\ out[i].page = k}

\* delta_sync has left the `for` loop over the values of response k and
\* passed the yield that follows it.
DeltaPageCompleted(k) == k < Len(calls) \/ pc \in {"ds_fetch", "ds_closing", "done"}

C17_OneCheckpointPerDeltaPage ==
    (Running /\ started.engine = "delta_sync") =>
        /\ \A i \in DOMAIN out : IsCheckpoint(i) => out[i].page \in DOMAIN calls
        /\ \A k \in DOMAIN calls :
              Answered(k) =>
                  /\ Cardinality(CheckpointsOfPage(k)) =
                        IF DeltaPageCompleted(k) THEN 1 ELSE 0
                  /\ \A i \in CheckpointsOfPage(k) :
                        Msg(i).state.checkpoint = DeltaUpdatesCheckpoint(Response(k).cursor)
                  /\ (k + 1) \in DOMAIN calls =>
                        calls[k + 1].req = [fn |-> "document_deltas",
                                            cursor |-> Response(k).cursor]

C17_Witness ==
    /\ started.engine = "delta_sync"
    /\ pc = "done"
    /\ Len(calls) = 2
    /\ Response(1).values = <<>>
    /\ Response(1).cursor = 2
    /\ Response(2).cursor = 1
    /\ Cardinality(CheckpointsOfPage(1)) = 1
    /\ Cardinality(CheckpointsOfPage(2)) = 1

(***************************************************************************)
(* C18. In initial_sync the (snapshot, cursor) of every list_snapshot      *)
(* request is the pair of the most recent InitialSync checkpoint: for the  *)
(* first request the one of the state resumed from (none/none exactly when *)
(* the sync is fresh), for a later request the one of the Checkpoint       *)
(* yielded for the previous page, which is the last Checkpoint yielded.    *)
(***************************************************************************)
RequestPair(k) == <<calls[k].req.snapshot, calls[k].req.cursor>>

C18_RequestsFollowCheckpoints ==
    (Running /\ started.engine = "initial_sync") =>
        \A k \in DOMAIN calls :
            /\ calls[k].req.fn = "list_snapshot"
            /\ IF k = 1
               THEN IF IsSome(state) /\ Unwrap(state).checkpoint.tag = "InitialSync"
                    THEN RequestPair(k) = <<Some(Unwrap(state).checkpoint.snapshot),
                                            Some(Unwrap(state).checkpoint.cursor)>>
                    ELSE ~IsSome(state) /\ RequestPair(k) = <<None, None>>
               ELSE \E i \in DOMAIN out :
                       /\ CheckpointsOfPage(k - 1) = {i}
                       /\ \A j \in DOMAIN out : (IsCheckpoint(j) /\ out[j].page < k) => j <= i
                       /\ IsInitialCheckpoint(i)
                       /\ RequestPair(k) = <<Some(Msg(i).state.checkpoint.snapshot),
                                             Some(Msg(i).state.checkpoint.cursor)>>

C18_Witness ==
    /\ Running
    /\ started.engine = "initial_sync"
    /\ IsSome(state)
    /\ Len(calls) = 2
    /\ RequestPair(1) = <<Some(1), Some("c1")>>
    /\ RequestPair(2) = <<Some(2), Some("c2")>>

(***************************************************************************)
(* C19. In delta_sync the Upsert/Delete operations of a page are, in       *)
(* order, one per entry of the response: the operation of an entry is for  *)
(* the entry's table, carries its converted fields and is a Delete when    *)
(* the entry is flagged deleted and an Upsert otherwise; once the entries  *)
(* have been iterated there is exactly one per entry.                      *)
(***************************************************************************)
C19_OneOperationPerEntry ==
    (Running /\ started.engine = "delta_sync") =>
        /\ \A i \in DOMAIN out :
              IsData(i) =>
                  LET k == out[i].page
                      n == Cardinality(DataOfPageBefore(k, i)) + 1
                  IN /\ k \in DOMAIN calls
                     /\ Answered(k)
                     /\ n <= Len(Response(k).values)
                     /\ Msg(i) = Update(Response(k).values[n].table,
                                        IF Response(k).values[n].deleted
                                        THEN "Delete" ELSE "Upsert",
                                        Unwrap(to_fivetran_row(Response(k).values[n].fields)))
        /\ \A k \in DOMAIN calls :
              (Answered(k) /\ DeltaPageCompleted(k)) =>
                  Cardinality(DataOfPageBefore(k, Len(out) + 1)) = Len(Response(k).values)

C19_Witness ==
    /\ started.engine = "delta_sync"
    /\ Running
    /\ Len(calls) = 2
    /\ \E i, j \in DOMAIN out :
          /\ i < j
          /\ out[i].page = 1 /\ out[j].page = 1
          /\ Msg(i).kind = "Update" /\ Msg(i).op_type = "Delete" /\ Msg(i).table_name = "t2"
          /\ Msg(j).kind = "Update" /\ Msg(j).op_type = "Upsert" /\ Msg(j).table_name = "t1"

(***************************************************************************)
(* C13. Against a source whose snapshot does not change, the destination   *)
(* that received an initial sync up to one of its Checkpoints and then the *)
(* initial_sync resumed from that Checkpoint (itself cut and resumed, or   *)
(* run to its end) holds the same tables as the destination that received  *)
(* a single unbroken initial sync.                                         *)
(***************************************************************************)
\* A delta sync is among the streams the destination received.
DeltaDelivered ==
    \E i \in DOMAIN delivered : delivered[i].msg = Log("Starting to apply changes")

\* The fresh initial sync compared with the destination has ended.
Compared == Running /\ Comparing /\ pc = "done"

SourceAnswered ==
    \A k \in DOMAIN calls :
        /\ Answered(k)
        /\ \A n \in DOMAIN Response(k).values :
              IsSome(to_fivetran_row(Response(k).values[n].fields))
        /\ (calls[k].req.fn = "list_snapshot" /\ Response(k).has_more) =>
              IsSome(Response(k).cursor)

C20_DrainedSyncEndsWithClosingLog ==
    (/\ Running
     /\ pc \in {"done", "error"}
     /\ calls # <<>>
     /\ SourceAnswered
     /\ ~Response(Len(calls)).has_more) =>
        /\ pc = "done"
        /\ Msg(Len(out)) = Log(IF started.engine = "initial_sync"
                               THEN "Initial sync successful" ELSE "Changes applied")

(***************************************************************************)
(* C25. A fresh initial sync (no prior checkpoint) whose first             *)
(* list_snapshot response has has_more = false and values that convert     *)
(* ends without error: after the rows of that page it yields a             *)
(* DeltaUpdates Checkpoint whose cursor is the snapshot of the response,   *)
(* then the closing Log.                                                   *)
(***************************************************************************)
\* The invocation is a fresh initial sync answered by a single last page.
FreshSinglePage ==
    /\ Running
    /\ started.engine = "initial_sync"
    /\ ~IsSome(started.checkpoint)
    /\ Len(calls) = 1
    /\ Answered(1)
    /\ ~Response(1).has_more
    /\ \A n \in DOMAIN Response(1).values :
          IsSome(to_fivetran_row(Response(1).values[n].fields))

C25_FreshSinglePageSyncCompletes ==
    (FreshSinglePage /\ pc \in {"done", "error"}) =>
        /\ pc = "done"
        /\ Len(out) >= 3
        /\ Msg(Len(out)) = Log("Initial sync successful")
        /\ IsCheckpoint(Len(out) - 1)
        /\ Msg(Len(out) - 1).state.checkpoint = DeltaUpdatesCheckpoint(Response(1).snapshot)
        /\ Cardinality(DataOfPageBefore(1, Len(out) - 1)) = Len(Response(1).values)

(***************************************************************************)
(* C26. When tables_seen is tracked, the tables_seen of every Checkpoint   *)
(* is the tables_seen the invocation started with united with the tables   *)
(* a Truncate was yielded for earlier in the same invocation.              *)
(***************************************************************************)
\* The tables truncated before position i of the stream.
TruncatedBefore(i) == {Msg(j).table_name : j \in {l \in 1..(i - 1) : IsTruncate(l)}}

C26_TablesSeenAccumulate ==
    (Running /\ IsSome(started.tables_seen)) =>
        \A i \in DOMAIN out :
            IsCheckpoint(i) =>
                Msg(i).state.tables_seen =
                    Some(Unwrap(started.tables_seen) \cup TruncatedBefore(i))

C26_Witness ==
    /\ Running
    /\ IsSome(started.tables_seen)
    /\ \E i, j \in DOMAIN out :
          /\ i < j
          /\ IsCheckpoint(i) /\ IsCheckpoint(j)
          /\ Unwrap(Msg(i).state.tables_seen) # Unwrap(started.tables_seen)
          /\ Unwrap(Msg(i).state.tables_seen) \subseteq Unwrap(Msg(j).state.tables_seen)
          /\ Unwrap(Msg(i).state.tables_seen) # Unwrap(Msg(j).state.tables_seen)

(***************************************************************************)
(* C27. In both engines the Upsert/Delete operations yielded for a page    *)
(* are, in order, one per entry of the source response, each for the table *)
(* of its entry; once the entries have been iterated there is exactly one  *)
(* per entry; in initial_sync each of them is an Upsert, whatever the      *)
(* deleted flag of the entry.                                              *)
(***************************************************************************)
\* The `for` loop over the values of response k has consumed every value.
PageIterated(k) == k < Len(calls) \/ idx > Len(Response(k).values)

C27_RowOperationsFollowEntries ==
    Running =>
        /\ \A i \in DOMAIN out :
              IsData(i) =>
                  LET k == out[i].page
                      n == Cardinality(DataOfPageBefore(k, i)) + 1
                  IN /\ k \in DOMAIN calls
                     /\ Answered(k)
                     /\ n <= Len(Response(k).values)
                     /\ Msg(i).table_name = Response(k).values[n].table
                     /\ started.engine = "initial_sync" => Msg(i).op_type = "Upsert"
        /\ \A k \in DOMAIN calls :
              (Answered(k) /\ PageIterated(k)) =>
                  Cardinality(DataOfPageBefore(k, Len(out) + 1)) = Len(Response(k).values)

C27_Witness ==
    /\ Running
    /\ started.engine = "initial_sync"
    /\ Len(calls) = 2
    /\ Answered(1) /\ Answered(2)
    /\ Len(Response(1).values) = 2
    /\ Response(1).values[1].deleted
    /\ PageIterated(2)
    /\ Len(Response(2).values) = 2
    /\ \E i, j \in DOMAIN out :
          /\ i < j
          /\ out[i].page = 1 /\ out[j].page = 1
          /\ IsData(i) /\ Msg(i).op_type = "Upsert" /\ Msg(i).table_name = "t2"
          /\ IsData(j) /\ Msg(j).op_type = "Upsert" /\ Msg(j).table_name = "t1"

(***************************************************************************)
(* C28. sync does not depend on the version of the state it is given: the  *)
(* stream it builds for a state is the one it builds for the same state    *)
(* with any other version; and every Checkpoint yielded carries the        *)
(* current version, 1, whatever the version of the input state.            *)
(***************************************************************************)
\* The step is a call of sync with a state.
SyncCalledWithState == run' = run + 1 /\ IsSome(state') /\ pc' \in {"is_start", "ds_start"}

\* The state `st` with the version v.
WithVersion(st, v) == Some([Unwrap(st) EXCEPT !.version = v])

C28_VersionIsNotBranchedOn ==
    [][/\ SyncCalledWithState => \A v \in Versions : sync(WithVersion(state', v))
       /\ \A i \in DOMAIN out' :
             out'[i].msg.kind = "Checkpoint" => out'[i].msg.state.version = CURSOR_VERSION]_vars

C28_Witness ==
    /\ Running
    /\ IsSome(state)
    /\ Unwrap(state).version # CURSOR_VERSION
    /\ started.engine = "initial_sync"
    /\ Len(calls) = 2
    /\ \E i \in DOMAIN out : IsCheckpoint(i) /\ Msg(i).state.version = CURSOR_VERSION

(***************************************************************************)
(* C29. The first message of every invocation is a Log yielded before any  *)
(* Source call; the closing Log ("Initial sync successful" / "Changes      *)
(* applied") is in the stream if and only if the run completed without     *)
(* error; when it is there it is the last message and comes after the last *)
(* Checkpoint.                                                             *)
(***************************************************************************)
ClosingLog ==
    Log(IF started.engine = "initial_sync" THEN "Initial sync successful"
                                           ELSE "Changes applied")

ClosingLogs == {Log("Initial sync successful"), Log("Changes applied")}

C29_OpeningAndClosingLogs ==
    Running =>
        /\ calls # <<>> => out # <<>>
        /\ out # <<>> =>
              (Msg(1).kind = "Log" /\ Msg(1) \notin ClosingLogs /\ out[1].page = 0)
        /\ (pc = "done") <=> (\E i \in DOMAIN out : Msg(i) \in ClosingLogs)
        /\ pc = "done" => \A i \in DOMAIN out : ~IsErr(i)
        /\ \A i \in DOMAIN out :
              Msg(i) \in ClosingLogs =>
                  /\ Msg(i) = ClosingLog
                  /\ i = Len(out)
                  /\ \E j \in 1..(i - 1) : IsCheckpoint(j)

C29_Witness ==
    /\ pc = "done"
    /\ started.engine = "initial_sync"
    /\ Len(calls) = 2
    /\ Msg(1) = Log("Resuming an initial sync")
    /\ Msg(Len(out)) = Log("Initial sync successful")
    /\ IsCheckpoint(Len(out) - 1)

(***************************************************************************)
(* C30. The update endpoint forwards the messages of the engine one to one *)
(* and in order: every item of the stream becomes one wire response of its *)
(* own kind (a Log a log entry with its text, a row operation a record     *)
(* with its table, type and fields, a Checkpoint a checkpoint operation    *)
(* whose state_json decodes to its State, an error a Status); an error is  *)
(* the last element of the stream; and a Checkpoint is never dropped: one  *)
(* whose State has no serialization aborts the stream.  Stated of every    *)
(* item at the step that yields it.                                        *)
(***************************************************************************)
\* The wire response w encodes the item m and nothing else.
Encodes(w, m) ==
    IF m.kind = "Log" THEN w = LogEntry(m.text)
    ELSE IF m.kind = "Update"
    THEN /\ w.response = "Operation" /\ w.op = "Record"
         /\ w.table_name = m.table_name
         /\ w.type = m.op_type
         /\ DOMAIN w.data = DOMAIN m.row
         /\ \A f \in DOMAIN m.row : w.data[f].inner = Some(m.row[f])
    ELSE IF m.kind = "Checkpoint"
    THEN IF Serializations(m.state) = {}
         THEN w = Panic
         ELSE /\ w.response = "Operation" /\ w.op = "Checkpoint"
              /\ DeserializeState(w.state_json) = Some(m.state)
    ELSE w = Status_internal(m.error)

C30_UpdateForwardsOneToOne ==
    [][\A i \in DOMAIN out' \ DOMAIN out :
          /\ Forwarded(out'[i].msg) # {}
          /\ \A w \in Forwarded(out'[i].msg) : Encodes(w, out'[i].msg)
          /\ \A j \in DOMAIN out : ~IsErr(j)]_vars

C30_Witness ==
    /\ Running
    /\ pc = "error"
    /\ IsSome(request)
    /\ \E i, j, l \in DOMAIN out :
          /\ Msg(i).kind = "Log"
          /\ IsData(j)
          /\ IsCheckpoint(l) /\ Cardinality(Forwarded(Msg(l))) = 2
          /\ j < l
    /\ IsErr(Len(out))

(***************************************************************************)
(* C23. Config::from_parameters fails whenever the url or the key          *)
(* parameter is missing and whenever the url is not a root http/https URL  *)
(* with a host (not a URL, another scheme, no host, a path other than /, a *)
(* query, a user name, a password or a fragment), whatever the value of    *)
(* allow_all_hosts.                                                        *)
(***************************************************************************)
Configured == pc = "configured"

Configuration == Unwrap(request).configuration

\* The text is a root http/https URL with a host.
RootHttpUrl(text) ==
    /\ text \notin NotUrls
    /\ text.scheme \in {"http", "https"}
    /\ IsSome(text.host)
    /\ text.path \in {"", "/"}
    /\ ~IsSome(text.query)
    /\ text.username = ""
    /\ ~IsSome(text.password)
    /\ ~IsSome(text.fragment)

C23_InvalidParametersAreRefused ==
    (/\ Configured
     /\ \/ ~IsSome(Configuration.url)
        \/ ~IsSome(Configuration.key)
        \/ ~RootHttpUrl(Unwrap(Configuration.url))) =>
        ~Unwrap(decoded).ok

C23_Witness ==
    /\ Configured
    /\ Unwrap(request).allow_all_hosts
    /\ IsSome(Configuration.key)
    /\ IsSome(Configuration.url)
    /\ Unwrap(Configuration.url) \notin NotUrls
    /\ Unwrap(Configuration.url) =
          UrlText("https", "", None, Some(<<"aware-llama-900", "convex", "cloud">>), None,
                  "/", None, Some("abc"))
    /\ Unwrap(decoded) = Bail("Invalid deploy URL: must be a root URL.")

(***************************************************************************)
(* C24 (as claimed). With allow_all_hosts disabled, from_parameters        *)
(* accepts a root URL only when its scheme is https, its text has no port  *)
(* and its host ends with .convex.cloud.                                   *)
(***************************************************************************)
\* A configuration with a key and a root http/https URL.
RootUrlWithKey ==
    /\ Configured
    /\ IsSome(Configuration.key)
    /\ IsSome(Configuration.url)
    /\ RootHttpUrl(Unwrap(Configuration.url))

DeployUrlText == Unwrap(Configuration.url)

C24_AcceptsOnlyPortlessConvexUrls ==
    (RootUrlWithKey /\ ~Unwrap(request).allow_all_hosts /\ Unwrap(decoded).ok) =>
        /\ DeployUrlText.scheme = "https"
        /\ ~IsSome(DeployUrlText.port)
        /\ EndsWithConvexCloud(Unwrap(DeployUrlText.host))

(***************************************************************************)
(* C24 (amended). With allow_all_hosts disabled, from_parameters accepts a *)
(* root URL exactly when its scheme is https, its port is absent or the    *)
(* default port of https, 443, and its host ends with .convex.cloud; with  *)
(* allow_all_hosts enabled it accepts every root http/https URL, whatever  *)
(* its scheme, port and host.                                              *)
(***************************************************************************)
C24_HostPolicy ==
    RootUrlWithKey =>
        (Unwrap(decoded).ok <=>
            \/ Unwrap(request).allow_all_hosts
            \/ /\ DeployUrlText.scheme = "https"
               /\ DeployUrlText.port \in {None, Some(443)}
               /\ EndsWithConvexCloud(Unwrap(DeployUrlText.host)))

C24_Witness ==
    /\ RootUrlWithKey
    /\ ~Unwrap(request).allow_all_hosts
    /\ DeployUrlText.port = Some(443)
    /\ Unwrap(decoded).ok
    /\ ~IsSome(Unwrap(decoded).deploy_url.port)

(***************************************************************************)
(* C22. For a run, initial or delta, cut after one of its Checkpoints, the *)
(* invocation resumed from that Checkpoint yields again, in the same       *)
(* order, every Upsert/Delete row operation the uninterrupted run yields   *)
(* after that Checkpoint: none of them is lost.                            *)
(***************************************************************************)
\* The invocation was resumed from a Checkpoint of the run in `delivered`.
Replayed ==
    /\ IsSome(state)
    /\ \E i \in DOMAIN delivered : delivered[i].msg = Checkpoint(Unwrap(state))

\* The items of the uninterrupted run after the Checkpoint resumed from.
AfterResumePoint ==
    LET first == CHOOSE i \in DOMAIN delivered :
                     /\ delivered[i].msg = Checkpoint(Unwrap(state))
                     /\ \A j \in 1..(i - 1) : delivered[j].msg # Checkpoint(Unwrap(state))
    IN SubSeq(delivered, first + 1, Len(delivered))

DataOp(item) == item.msg.kind = "Update" /\ item.msg.op_type \in {"Upsert", "Delete"}

\* The Upsert/Delete operations of the items, in order.
DataOps(items) == [i \in DOMAIN SelectSeq(items, DataOp) |-> SelectSeq(items, DataOp)[i].msg]

\* Every element of a is found in b, in the order of a.
RECURSIVE Embeds(_, _)
Embeds(a, b) ==
    IF a = <<>> THEN TRUE
    ELSE IF b = <<>> THEN FALSE
    ELSE IF a[1] = b[1] THEN Embeds(Tail(a), Tail(b))
    ELSE Embeds(a, Tail(b))

C22_ResumeLosesNoRowOperation ==
    (pc = "done" /\ Replayed) => Embeds(DataOps(AfterResumePoint), DataOps(out))

C22_Witness ==
    /\ pc = "done"
    /\ Replayed
    /\ started.engine = "delta_sync"
    /\ \E i \in DOMAIN DataOps(AfterResumePoint) :
          DataOps(AfterResumePoint)[i].op_type = "Delete"
    /\ Len(DataOps(out)) >= 1

C22_WitnessInitial ==
    /\ pc = "done"
    /\ Replayed
    /\ started.engine = "initial_sync"
    /\ Len(DataOps(AfterResumePoint)) >= 2

(***************************************************************************)
(* C21. Production is lazy, with no lookahead: a Source call is issued     *)
(* only inside a poll, that is after the consumer has received every item  *)
(* yielded so far and asked for one more, and a call after the first       *)
(* follows the Checkpoint of the previous page; so the Source calls issued *)
(* are never more than one more than the Checkpoints consumed, and while   *)
(* the consumer does not pull no Source call is issued.                    *)
(***************************************************************************)
\* The items the consumer has received.
Consumed == SubSeq(out, 1, IF Len(out) < pulls THEN Len(out) ELSE pulls)

CheckpointsConsumed ==
    Cardinality({i \in DOMAIN Consumed : Consumed[i].msg.kind = "Checkpoint"})

C21_SourceCallsFollowPulls ==
    [][/\ Len(calls') > Len(calls) =>
             /\ Len(out) < pulls
             /\ Consumed = out
             /\ calls # <<>> => out[Len(out)].msg.kind = "Checkpoint"
       /\ Len(calls') <= 1 + CheckpointsConsumed']_vars

\* The second page was requested, after the Checkpoint of the first was
\* consumed, and the consumer has not asked for the item after its first row.
C21_Witness ==
    /\ Len(calls) = 2
    /\ CheckpointsConsumed = 1
    /\ Len(out) = pulls
    /\ out[Len(out)].msg.kind = "Update"
    /\ out[Len(out)].page = 2

(***************************************************************************)
(* C31. Within one invocation at most one Truncate is yielded for a table, *)
(* and none for a table contained in the tables_seen of the state the      *)
(* invocation was started from.                                            *)
(***************************************************************************)
\* The tables_seen of the state handed to sync, when it has one.
StateTablesSeen ==
    IF IsSome(state) /\ IsSome(Unwrap(state).tables_seen)
    THEN Unwrap(Unwrap(state).tables_seen)
    ELSE {}

C31_OneTruncatePerNewTable ==
    \A i \in DOMAIN out :
        IsTruncate(i) =>
            /\ Msg(i).table_name \notin StateTablesSeen
            /\ \A j \in DOMAIN out :
                  (IsTruncate(j) /\ Msg(j).table_name = Msg(i).table_name) => j = i

\* A resumed invocation that knew t1 yielded rows of t1 without a Truncate
\* and two rows of t2 after the single Truncate of t2.
C31_Witness ==
    /\ StateTablesSeen = {"t1"}
    /\ \E i, j, k, l \in DOMAIN out :
          /\ i < j /\ j < k
          /\ IsTruncate(i) /\ Msg(i).table_name = "t2"
          /\ IsData(j) /\ Msg(j).table_name = "t2"
          /\ IsData(k) /\ Msg(k).table_name = "t2"
          /\ IsData(l) /\ Msg(l).table_name = "t1"

(***************************************************************************)
(* C32. A Checkpoint that tracks tables_seen contains every table that had *)
(* an Upsert or Delete yielded before it in the same invocation; so an     *)
(* invocation resumed from a Checkpoint the destination received, with     *)
(* tables_seen tracked, yields no Truncate for a table whose rows the      *)
(* destination received before that Checkpoint.                            *)
(***************************************************************************)
\* The tables with an Upsert or Delete yielded before position i.
DataTablesBefore(i) == {Msg(j).table_name : j \in {k \in 1..(i - 1) : IsData(k)}}

\* The tables with an Upsert or Delete among the items the destination
\* received from the earlier invocations, up to the Checkpoint resumed from.
DeliveredDataTables ==
    {delivered[i].msg.table_name :
        i \in {k \in DOMAIN delivered :
                  /\ delivered[k].msg.kind = "Update"
                  /\ delivered[k].msg.op_type \in {"Upsert", "Delete"}}}

\* This invocation was resumed from a Checkpoint that tracks tables_seen.
ResumedTracked ==
    /\ delivered # <<>>
    /\ IsSome(state)
    /\ IsSome(Unwrap(state).tables_seen)

C32_ResumeKeepsCheckpointedRows ==
    /\ \A i \in DOMAIN out :
          (IsCheckpoint(i) /\ IsSome(Msg(i).state.tables_seen)) =>
              DataTablesBefore(i) \subseteq Unwrap(Msg(i).state.tables_seen)
    /\ ResumedTracked =>
          \A i \in DOMAIN out : IsTruncate(i) => Msg(i).table_name \notin DeliveredDataTables

\* The invocation resumed after rows of t1 were delivered yielded a row of
\* t1 and a Checkpoint, and truncated t2 only.
C32_Witness ==
    /\ ResumedTracked
    /\ DeliveredDataTables = {"t1"}
    /\ \E i, j, k \in DOMAIN out :
          /\ IsData(i) /\ Msg(i).table_name = "t1"
          /\ IsTruncate(j) /\ Msg(j).table_name = "t2"
          /\ j < k /\ IsCheckpoint(k) /\ IsSome(Msg(k).state.tables_seen)
    /\ \A j \in DOMAIN out : IsTruncate(j) => Msg(j).table_name = "t2"

(***************************************************************************)
(* C33. Every Truncate carries an empty row, and the item that follows it  *)
(* is the Upsert or Delete of the entry that caused it, of the same table, *)
(* or, when the row of that entry does not convert, the error that ends    *)
(* the stream; a Truncate is never directly followed by a Checkpoint, a    *)
(* Log or a row operation of another table.                                *)
(***************************************************************************)
\* The entry of the response being iterated when the item at position i
\* was yielded: the one after the entries whose rows were already yielded.
EntryAt(i) ==
    Response(out[i].page).values[Cardinality(DataOfPageBefore(out[i].page, i)) + 1]

\* What the engine yields for the row of an entry.
RowItem(value) ==
    IF IsSome(to_fivetran_row(value.fields))
    THEN Update(value.table,
                IF started.engine = "delta_sync" THEN DeltaOpType(value)
                                                 ELSE InitialOpType(value),
                Unwrap(to_fivetran_row(value.fields)))
    ELSE Err("Conversion")

C33_TruncateIsFollowedByItsRow ==
    \A i \in DOMAIN out :
        IsTruncate(i) =>
            /\ Msg(i).row = EmptyRow
            /\ Msg(i).table_name = EntryAt(i).table
            /\ i < Len(out) =>
                  /\ Msg(i + 1) = RowItem(EntryAt(i))
                  /\ out[i + 1].page = out[i].page
                  /\ IsErr(i + 1) => (i + 1 = Len(out) /\ pc = "error")
            /\ i = Len(out) => pc \in {"is_upsert", "ds_row"}

\* One Truncate was followed by the row of its entry, a later one by the
\* error of a row that does not convert.
C33_Witness ==
    \E i, j \in DOMAIN out :
        /\ IsTruncate(i) /\ IsTruncate(j)
        /\ i + 1 < j /\ j < Len(out)
        /\ IsData(i + 1)
        /\ Msg(i + 1).table_name = Msg(i).table_name
        /\ IsErr(j + 1)

\* In a delta sync a Truncate was followed by the Delete of its entry.
C33_WitnessDelete ==
    \E i \in DOMAIN out :
        /\ IsTruncate(i)
        /\ i < Len(out)
        /\ Msg(i + 1).kind = "Update" /\ Msg(i + 1).op_type = "Delete"
        /\ Msg(i + 1).table_name = Msg(i).table_name

(***************************************************************************)
(* C34. The phase of the sync never goes back.  An InitialSync Checkpoint  *)
(* is yielded only by initial_sync, before its DeltaUpdates Checkpoint,    *)
(* and never by an invocation started from a DeltaUpdates Checkpoint;      *)
(* delta_sync yields DeltaUpdates Checkpoints only; after the DeltaUpdates *)
(* Checkpoint of initial_sync nothing but the closing Log is yielded.  So  *)
(* along a chain of invocations, each resumed from a Checkpoint of the one *)
(* before, no InitialSync Checkpoint follows a DeltaUpdates Checkpoint.    *)
(***************************************************************************)
IsDeltaUpdates(item) ==
    item.msg.kind = "Checkpoint" /\ item.msg.state.checkpoint.tag = "DeltaUpdates"

IsInitialSync(item) ==
    item.msg.kind = "Checkpoint" /\ item.msg.state.checkpoint.tag = "InitialSync"

\* The invocation was started from a DeltaUpdates Checkpoint.
StartedFromDeltaUpdates ==
    IsSome(state) /\ Unwrap(state).checkpoint.tag = "DeltaUpdates"

C34_PhaseNeverRegresses ==
    [][\A i \in DOMAIN out' \ DOMAIN out :
          /\ IsInitialSync(out'[i]) =>
                /\ started.engine = "initial_sync"
                /\ ~StartedFromDeltaUpdates
                /\ \A j \in DOMAIN out : ~IsDeltaUpdates(out[j])
          /\ (started.engine = "delta_sync" /\ out'[i].msg.kind = "Checkpoint") =>
                IsDeltaUpdates(out'[i])
          /\ (started.engine = "initial_sync" /\ \E j \in DOMAIN out : IsDeltaUpdates(out[j])) =>
                /\ out'[i].msg = Log("Initial sync successful")
                /\ pc' = "done"
          /\ StartedFromDeltaUpdates => started.engine = "delta_sync"]_vars

\* An initial sync yielded an InitialSync Checkpoint, then its DeltaUpdates
\* Checkpoint, then the closing Log.
C34_Witness ==
    /\ started.engine = "initial_sync"
    /\ pc = "done"
    /\ \E i, j \in DOMAIN out :
          /\ i < j /\ j + 1 = Len(out)
          /\ IsInitialSync(out[i])
          /\ IsDeltaUpdates(out[j])
          /\ Msg(j + 1).kind = "Log"

\* An invocation resumed from a DeltaUpdates Checkpoint of the invocation
\* before it yielded two Checkpoints.
C34_WitnessChain ==
    /\ run = 2
    /\ StartedFromDeltaUpdates
    /\ \E i, j \in DOMAIN out : i < j /\ IsDeltaUpdates(out[i]) /\ IsDeltaUpdates(out[j])

(***************************************************************************)
(* C35. In the response of the schema endpoint every table of the source   *)
(* schema, an empty table whose schema is a boolean included, has the      *)
(* columns _id and _creationTime first and no other column whose name      *)
(* starts with an underscore, and _id is its only primary key column.      *)
(***************************************************************************)
\* The schema endpoint answered with tables.
SchemaAnswered == pc = "schema_done" /\ Unwrap(decoded).ok

SourceSchema == Unwrap(Unwrap(request).json_schemas)

\* The tables of the response but the last, which is the cursor table.
SourceTables == SubSeq(Unwrap(decoded).tables, 1, Len(Unwrap(decoded).tables) - 1)

IdName == <<"_", "i", "d">>

CreationTimeName == <<"_", "c", "r", "e", "a", "t", "i", "o", "n", "T", "i", "m", "e">>

C35_SystemColumnsLeadAndIdIsTheKey ==
    SchemaAnswered =>
        /\ {SourceTables[i].name : i \in DOMAIN SourceTables} = DOMAIN SourceSchema
        /\ Len(SourceTables) = Cardinality(DOMAIN SourceSchema)
        /\ \A i \in DOMAIN SourceTables :
              LET columns == SourceTables[i].columns IN
              /\ Len(columns) >= 2
              /\ columns[1].name = IdName
              /\ columns[2].name = CreationTimeName
              /\ \A k \in 3..Len(columns) :
                    Len(columns[k].name) > 0 => columns[k].name[1] # "_"
              /\ {k \in DOMAIN columns : columns[k].primary_key} = {1}
              /\ SourceSchema[SourceTables[i].name].tag = "Bool" => Len(columns) = 2

\* The schema of the test can_deserialize_schema: an empty table and a
\* table whose properties include five names that start with an underscore.
C35_Witness ==
    /\ SchemaAnswered
    /\ DOMAIN SourceSchema = {"emptyTable", "table"}
    /\ SourceSchema["emptyTable"].tag = "Bool"
    /\ SourceSchema["table"].tag = "Object"
    /\ Len(Unwrap(SourceSchema["table"].object).properties) = 7
    /\ \E i \in DOMAIN SourceTables :
          /\ SourceTables[i].name = "table"
          /\ Len(SourceTables[i].columns) = 4

=============================================================================
